---- MODULE Spec2Model ----
(***************************************************************************)
(* Block processor, block storage and their collaborators of the DPoS     *)
(* node core.                                                              *)
(*                                                                         *)
(*   Storage   src/elements/lisk-chain/src/data_access/storage.ts          *)
(*   Processor src/unnamed/part_001                                        *)
(*                                                                         *)
(* The key/value store, the state store, the chain module and the BFT      *)
(* module are collaborators whose code is not part of the sources; they    *)
(* are written from sections 4.2, 4.3, 4.4 and 4.5 of the specification.   *)
(***************************************************************************)
EXTENDS Integers, Sequences, FiniteSets, TLC

VARIABLES
    db,              \* KVStore contents: key -> value (absent keys are not in the domain)
    lastBlock,       \* Chain._lastBlock, the in-memory tip
    finalizedHeight, \* BFT.finalizedHeight, the in-memory finalized height
    initialized,     \* Processor.init has completed at least once
    job,             \* the job the queue ran last: its call, what it saw and what it did
    undo,            \* the tip deleteLastBlock removed last and the store it was removed from
    st,              \* Storage.saveBlock in flight, as seen by a concurrent reader
    pq,              \* the Processor's callers, its job queue and its shutdown flag
    reg,             \* Processor._modules and Processor._hooks, and the last register call
    bus,             \* Bus.events, Bus.actions, Bus.channels, and the last registerChannel call
    net,             \* Transport: the clock, the rate-limit windows and the calls handled
    bc,              \* Transport's broadcaster: its queue, the pool it asks, and what it announced
    rx,              \* Transport's peer handlers: the pool, and the last request handled with what it did
    inv,             \* Bus.invoke: the last request and how the call ended
    rpc,             \* Bus.invoke over IPC: the pending request ids, the response listeners and what the promises got
    pl,              \* Processor._processValidated step by step: the last block application and the steps it ran
    rc               \* the last registerChannel call and the bus it found

vars == <<db, lastBlock, finalizedHeight, initialized, job, undo, st, pq, reg, bus, net, bc, rx, inv, rpc, pl, rc>>

\* the chain as the Processor's jobs change it, and the record of the last job
nodeVars == <<db, lastBlock, finalizedHeight, initialized, job, undo>>

\* what the jobs of the Processor, run one after the other, leave alone
aux == <<pq, reg, bus, net, bc, rx, inv, rpc, pl, rc>>

\* the components beside the chain and its queue
sideVars == <<reg, bus, net, bc, rx, inv, rpc, pl, rc>>

-----------------------------------------------------------------------------
(* Bounds *)

\* Greatest height of a block handed to the node.
MaxHeight == 2

\* Greatest number of calls the peers make of the rate-limited handlers, and
\* greatest number of clock steps in between.
MaxRequests == 4

MaxTicks == 3

\* Greatest number of transactions handed to handleBroadcastTransaction, and of
\* broadcast interval ticks.
MaxTransactions == 51

MaxReleases == 2

\* Greatest number of events one registerChannel call names.
MaxEvents == 2

\* Greatest id of a module handed to register.
MaxModuleId == 3

\* Greatest number of invokes routed to child processes; their ids are
\* 1..MaxInvokes.
MaxInvokes == 3

\* Greatest number of calls of process, processValidated and deleteLastBlock
\* made of a Processor whose callers do not wait for each other.
MaxCalls == 3

-----------------------------------------------------------------------------
(* Program constants *)

BLOCK_VERSION == 2

IDENTICAL_BLOCK == "IDENTICAL_BLOCK"
VALID_BLOCK == "VALID_BLOCK"
DOUBLE_FORGING == "DOUBLE_FORGING"
TIE_BREAK == "TIE_BREAK"
DIFFERENT_CHAIN == "DIFFERENT_CHAIN"
DISCARD == "DISCARD"

forkStatusList ==
    {IDENTICAL_BLOCK, VALID_BLOCK, DOUBLE_FORGING, TIE_BREAK, DIFFERENT_CHAIN, DISCARD}

EVENT_PROCESSOR_SYNC_REQUIRED == "EVENT_PROCESSOR_SYNC_REQUIRED"
EVENT_PROCESSOR_BROADCAST_BLOCK == "EVENT_PROCESSOR_BROADCAST_BLOCK"

DB_KEY_BLOCKS_ID == "BLOCKS_ID"
DB_KEY_BLOCKS_HEIGHT == "BLOCKS_HEIGHT"
DB_KEY_TRANSACTIONS_BLOCK_ID == "TX_BLOCK_ID"
DB_KEY_TRANSACTIONS_ID == "TX_ID"
DB_KEY_TEMPBLOCKS_HEIGHT == "TEMPBLOCKS_HEIGHT"
DB_KEY_DIFF_STATE == "DIFF_STATE"
DB_KEY_FINALIZED_HEIGHT == "FINALIZED_HEIGHT"
DB_KEY_ACCOUNTS == "ACCOUNTS"
DB_KEY_CHAIN_STATE == "CHAIN_STATE"

\* concatDBKeys(prefix, payload)
concatDBKeys(prefix, payload) == <<prefix, payload>>

\* The finalized height lives under the bare prefix.
FinalizedHeightKey == <<DB_KEY_FINALIZED_HEIGHT, 0>>

-----------------------------------------------------------------------------
(* Helpers *)

Max(a, b) == IF a >= b THEN a ELSE b

Range(s) == {s[i] : i \in 1..Len(s)}

-----------------------------------------------------------------------------
(* KV store (specification 4.2): get / put / del / exists / batch / clear *)

EmptyDB == <<>>

Exists(d, k) == k \in DOMAIN d

Put(d, k, v) == [x \in (DOMAIN d) \cup {k} |-> IF x = k THEN v ELSE d[x]]

Del(d, k) == [x \in (DOMAIN d) \ {k} |-> d[x]]

BatchPut(k, v) == [type |-> "put", key |-> k, value |-> v]

BatchDel(k) == [type |-> "del", key |-> k]

ApplyOp(d, op) == IF op.type = "put" THEN Put(d, op.key, op.value) ELSE Del(d, op.key)

\* batch.write(): the queued puts and dels, applied in order, as one step.
RECURSIVE BatchWrite(_, _)
BatchWrite(d, batch) ==
    IF batch = <<>> THEN d ELSE BatchWrite(ApplyOp(d, Head(batch)), Tail(batch))

\* db.clear({gte: prefix+formatInt(from), lt: prefix+formatInt(until)}); formatInt is
\* big-endian, so the byte order of the keys is the order of the numbers.
Clear(d, prefix, from, until) ==
    [x \in {k \in DOMAIN d : ~(k[1] = prefix /\ k[2] >= from /\ k[2] < until)} |-> d[x]]

\* db.clear over the whole prefix
ClearPrefix(d, prefix) == [x \in {k \in DOMAIN d : k[1] # prefix} |-> d[x]]

-----------------------------------------------------------------------------
(* State store (specification 4.3): an overlay of snapshots and writes *)

None == [present |-> FALSE]
Some(v) == [present |-> TRUE, value |-> v]

\* The account and chain-state keys the modules of this node touch.
StateKeyList ==
    << <<DB_KEY_ACCOUNTS, 1>>, <<DB_KEY_ACCOUNTS, 2>>, <<DB_KEY_CHAIN_STATE, 1>> >>

StateKeys == Range(StateKeyList)

DbOpt(d, k) == IF Exists(d, k) THEN Some(d[k]) ELSE None

\* chain.newStateStore(): nothing read, nothing written yet
NewStateStore == [snap |-> <<>>, data |-> <<>>]

Touch(ss, d, k) ==
    IF k \in DOMAIN ss.snap THEN ss.snap
    ELSE [x \in (DOMAIN ss.snap) \cup {k} |-> IF x = k THEN DbOpt(d, k) ELSE ss.snap[x]]

Overlay(ss, k, opt) ==
    [x \in (DOMAIN ss.data) \cup {k} |-> IF x = k THEN opt ELSE ss.data[x]]

\* get: the overlay value when written in this transition, else the KV value
ssGet(ss, d, k) == IF k \in DOMAIN ss.data THEN ss.data[k] ELSE DbOpt(d, k)

\* set: records the value; reads a snapshot first when there is none
ssSet(ss, d, k, v) == [snap |-> Touch(ss, d, k), data |-> Overlay(ss, k, Some(v))]

\* del: records the previous value and the absence
ssDel(ss, d, k) == [snap |-> Touch(ss, d, k), data |-> Overlay(ss, k, None)]

Touched(ss) == SelectSeq(StateKeyList, LAMBDA k : k \in DOMAIN ss.data)

\* finalize(batch): the mutations flushed into the batch, and the diff
\* created: no prior snapshot; updated: snapshot and final both exist;
\* deleted: snapshot existed and final does not.
ssFlush(ss) ==
    LET ks == Touched(ss)
    IN  [i \in 1..Len(ks) |->
            IF ss.data[ks[i]].present
            THEN BatchPut(ks[i], ss.data[ks[i]].value)
            ELSE BatchDel(ks[i])]

ssDiff(ss) ==
    LET ks == Touched(ss)
        cr == SelectSeq(ks, LAMBDA k : ~ss.snap[k].present)
        up == SelectSeq(ks, LAMBDA k : ss.snap[k].present /\ ss.data[k].present)
        de == SelectSeq(ks, LAMBDA k : ss.snap[k].present /\ ~ss.data[k].present)
    IN  [created |-> cr,
         updated |-> [i \in 1..Len(up) |-> [key |-> up[i], value |-> ss.snap[up[i]].value]],
         deleted |-> [i \in 1..Len(de) |-> [key |-> de[i], value |-> ss.snap[de[i]].value]]]

finalize(ss) == [ops |-> ssFlush(ss), diff |-> ssDiff(ss)]

\* codec.encode(stateDiffSchema, diff) and codec.decode(stateDiffSchema, bytes):
\* the fields in ascending field number
encodeDiff(diff) == <<diff.created, diff.updated, diff.deleted>>

decodeDiff(bytes) == [created |-> bytes[1], updated |-> bytes[2], deleted |-> bytes[3]]

-----------------------------------------------------------------------------
(* Blocks and transactions handed to the node *)

\* What a peer or the forger can put into a block that continues some parent:
\* who forged it and in which slot, its version, its payload, which step of
\* its application throws, and what its header lets the BFT accounting finalize.
VariantTable == <<
    [generator |-> 1, slotOffset |-> 1, version |-> BLOCK_VERSION,
     txs |-> <<"credit", "toggle">>, fails |-> "none", finalizes |-> "parent"],
    [generator |-> 2, slotOffset |-> 1, version |-> BLOCK_VERSION,
     txs |-> <<"credit">>, fails |-> "none", finalizes |-> "nothing"],
    [generator |-> 1, slotOffset |-> 0, version |-> BLOCK_VERSION,
     txs |-> <<>>, fails |-> "beforeBlockApply", finalizes |-> "nothing"],
    [generator |-> 2, slotOffset |-> 0, version |-> BLOCK_VERSION - 1,
     txs |-> <<>>, fails |-> "validate", finalizes |-> "nothing"],
    [generator |-> 2, slotOffset |-> 0, version |-> BLOCK_VERSION,
     txs |-> <<>>, fails |-> "verifyBlockHeader", finalizes |-> "nothing"],
    [generator |-> 2, slotOffset |-> 0, version |-> BLOCK_VERSION,
     txs |-> <<"credit", "bad">>, fails |-> "transaction", finalizes |-> "parent"],
    [generator |-> 2, slotOffset |-> 0, version |-> BLOCK_VERSION,
     txs |-> <<"credit">>, fails |-> "afterBlockApply", finalizes |-> "nothing"] >>

NumVariants == Len(VariantTable)

TxTypes == <<"credit", "toggle", "bad">>

TxTypeIndex(t) == CHOOSE i \in 1..Len(TxTypes) : TxTypes[i] = t

\* codec.encode / codec.decode of a transaction, and its id = hash(encode(tx))
encodeTransaction(tx) == <<TxTypeIndex(tx.type), tx.nonce>>

hashTransaction(bytes) == bytes[2] * (Len(TxTypes) + 1) + bytes[1]

decodeTransaction(bytes) ==
    [id |-> hashTransaction(bytes), type |-> TxTypes[bytes[1]], nonce |-> bytes[2]]

MkTransaction(type, nonce) == decodeTransaction(<<TxTypeIndex(type), nonce>>)

\* codec.encode / codec.decode of a block header, and its id = hash(encode(header))
encodeBlockHeader(header) ==
    <<header.version, header.height, header.timestamp, header.previousBlockID,
      header.generator, header.transactionRoot, header.signature>>

hash(bytes) == bytes[4] * NumVariants + bytes[7]

decodeBlockHeader(bytes) ==
    [id |-> hash(bytes), version |-> bytes[1], height |-> bytes[2], timestamp |-> bytes[3],
     previousBlockID |-> bytes[4], generator |-> bytes[5], transactionRoot |-> bytes[6],
     signature |-> bytes[7]]

\* dataAccess.encode(block): the full encoded block
encodeBlock(block) ==
    <<encodeBlockHeader(block.header),
      [i \in 1..Len(block.payload) |-> encodeTransaction(block.payload[i])]>>

\* RawBlock {header, payload} -> Block
decodeRawBlock(raw) ==
    [header |-> decodeBlockHeader(raw.header),
     payload |-> [i \in 1..Len(raw.payload) |-> decodeTransaction(raw.payload[i])]]

MkBlock(height, previousBlockID, variant) ==
    LET v == VariantTable[variant]
        payload == [i \in 1..Len(v.txs) |-> MkTransaction(v.txs[i], height)]
    IN  decodeRawBlock(
            [header |-> <<v.version, height, 2 * height + v.slotOffset, previousBlockID,
                          v.generator, [i \in 1..Len(payload) |-> payload[i].id], variant>>,
             payload |-> [i \in 1..Len(payload) |-> encodeTransaction(payload[i])]])

GenesisBlock ==
    decodeRawBlock([header |-> <<0, 0, 0, 0, 0, <<>>, 0>>, payload |-> <<>>])

VariantOf(block) == VariantTable[block.header.signature]

Applicable(block) == block.header.height = 0 \/ VariantOf(block).fails = "none"

\* The blocks the peers build: every variant on top of the genesis block and of
\* a first-variant block, and the second forger's own continuation of its fork.
ContinuedBy(block) ==
    IF block.header.height = 0 \/ block.header.signature = 1 THEN 1..NumVariants
    ELSE IF block.header.signature = 2 THEN {2}
    ELSE {}

RECURSIVE BlocksAt(_)
BlocksAt(h) ==
    IF h = 0 THEN {GenesisBlock}
    ELSE UNION {{MkBlock(h, p.header.id, v) : v \in ContinuedBy(p)} : p \in BlocksAt(h - 1)}

Blocks == UNION {BlocksAt(h) : h \in 1..MaxHeight}

PeerIds == {"peerA"}

-----------------------------------------------------------------------------
(* Storage (storage.ts) *)

NotFoundError == "NotFoundError"

Found(v) == [err |-> "none", value |-> v]

Failed(e) == [err |-> e]

getBlockHeaderByID(d, id) ==
    IF Exists(d, concatDBKeys(DB_KEY_BLOCKS_ID, id))
    THEN Found(d[concatDBKeys(DB_KEY_BLOCKS_ID, id)])
    ELSE Failed(NotFoundError)

getBlockHeaderByHeight(d, height) ==
    IF Exists(d, concatDBKeys(DB_KEY_BLOCKS_HEIGHT, height))
    THEN getBlockHeaderByID(d, d[concatDBKeys(DB_KEY_BLOCKS_HEIGHT, height)])
    ELSE Failed(NotFoundError)

getLastBlockHeader(d) ==
    LET hs == {k[2] : k \in {x \in DOMAIN d : x[1] = DB_KEY_BLOCKS_HEIGHT}}
    IN  IF hs = {} THEN Failed(NotFoundError)
        ELSE getBlockHeaderByID(d,
                d[concatDBKeys(DB_KEY_BLOCKS_HEIGHT, CHOOSE h \in hs : \A g \in hs : g <= h)])

_getTransactions(d, blockID) ==
    LET txIDs == IF Exists(d, concatDBKeys(DB_KEY_TRANSACTIONS_BLOCK_ID, blockID))
                 THEN d[concatDBKeys(DB_KEY_TRANSACTIONS_BLOCK_ID, blockID)]
                 ELSE <<>>
    IN  IF \E i \in 1..Len(txIDs) : ~Exists(d, concatDBKeys(DB_KEY_TRANSACTIONS_ID, txIDs[i]))
        THEN Failed(NotFoundError)
        ELSE Found([i \in 1..Len(txIDs) |-> d[concatDBKeys(DB_KEY_TRANSACTIONS_ID, txIDs[i])]])

WithTransactions(d, headerResult, blockID) ==
    IF headerResult.err # "none" THEN headerResult
    ELSE LET transactions == _getTransactions(d, blockID)
         IN  IF transactions.err # "none" THEN transactions
             ELSE Found([header |-> headerResult.value, payload |-> transactions.value])

getBlockByID(d, id) == WithTransactions(d, getBlockHeaderByID(d, id), id)

getBlockByHeight(d, height) ==
    LET header == getBlockHeaderByHeight(d, height)
    IN  WithTransactions(d, header, IF header.err = "none" THEN hash(header.value) ELSE 0)

getLastBlock(d) ==
    LET header == getLastBlockHeader(d)
    IN  WithTransactions(d, header, IF header.err = "none" THEN hash(header.value) ELSE 0)

getTempBlocks(d) == {d[k] : k \in {x \in DOMAIN d : x[1] = DB_KEY_TEMPBLOCKS_HEIGHT}}

isTempBlockEmpty(d) == getTempBlocks(d) = {}

\* a slip: the range of the clear ends before the last temporary block
clearTempBlocks_exclusive(d) ==
    LET hs == {k[2] : k \in {x \in DOMAIN d : x[1] = DB_KEY_TEMPBLOCKS_HEIGHT}}
    IN  IF hs = {} THEN d
        ELSE Clear(d, DB_KEY_TEMPBLOCKS_HEIGHT, 0, CHOOSE h \in hs : \A g \in hs : g <= h)

clearTempBlocks(d) == ClearPrefix(d, DB_KEY_TEMPBLOCKS_HEIGHT)

isBlockPersisted(d, blockID) == Exists(d, concatDBKeys(DB_KEY_BLOCKS_ID, blockID))

getFinalizedHeight(d) == d[FinalizedHeightKey]

\* a slip: the transaction ids of the block written in reverse
saveBlockBatch_reversedIds(id, height, finalized, header, payload, stateStore, removeFromTemp) ==
    <<BatchPut(concatDBKeys(DB_KEY_BLOCKS_ID, id), header),
      BatchPut(concatDBKeys(DB_KEY_BLOCKS_HEIGHT, height), id)>>
    \o (IF Len(payload) > 0
        THEN [i \in 1..Len(payload) |->
                BatchPut(concatDBKeys(DB_KEY_TRANSACTIONS_ID, payload[i].id), payload[i].value)]
             \o <<BatchPut(concatDBKeys(DB_KEY_TRANSACTIONS_BLOCK_ID, id),
                           [i \in 1..Len(payload) |-> payload[Len(payload) + 1 - i].id])>>
        ELSE <<>>)
    \o (IF removeFromTemp
        THEN <<BatchDel(concatDBKeys(DB_KEY_TEMPBLOCKS_HEIGHT, height))>>
        ELSE <<>>)
    \o finalize(stateStore).ops
    \o <<BatchPut(concatDBKeys(DB_KEY_DIFF_STATE, height),
                  encodeDiff(finalize(stateStore).diff)),
         BatchPut(FinalizedHeightKey, finalized)>>

\* saveBlock, lines 309-329: everything queued into the one batch
saveBlockBatch(id, height, finalized, header, payload, stateStore, removeFromTemp) ==
    <<BatchPut(concatDBKeys(DB_KEY_BLOCKS_ID, id), header),
      BatchPut(concatDBKeys(DB_KEY_BLOCKS_HEIGHT, height), id)>>
    \o (IF Len(payload) > 0
        THEN [i \in 1..Len(payload) |->
                BatchPut(concatDBKeys(DB_KEY_TRANSACTIONS_ID, payload[i].id), payload[i].value)]
             \o <<BatchPut(concatDBKeys(DB_KEY_TRANSACTIONS_BLOCK_ID, id),
                           [i \in 1..Len(payload) |-> payload[i].id])>>
        ELSE <<>>)
    \o (IF removeFromTemp
        THEN <<BatchDel(concatDBKeys(DB_KEY_TEMPBLOCKS_HEIGHT, height))>>
        ELSE <<>>)
    \o finalize(stateStore).ops
    \o <<BatchPut(concatDBKeys(DB_KEY_DIFF_STATE, height),
                  encodeDiff(finalize(stateStore).diff)),
         BatchPut(FinalizedHeightKey, finalized)>>

\* a slip: the entry of the finalized height itself is cleared too
_cleanUntil_through(d, height) == Clear(d, DB_KEY_DIFF_STATE, 0, height + 1)

\* _cleanUntil, lines 393-399: clear of [DIFF_STATE:0, DIFF_STATE:height)
_cleanUntil(d, height) == Clear(d, DB_KEY_DIFF_STATE, 0, height)

\* a slip: header and height index written first, everything else in a second batch
saveBlockWrites_split(id, height, finalized, header, payload, stateStore, removeFromTemp) ==
    LET batch == saveBlockBatch(id, height, finalized, header, payload,
                                stateStore, removeFromTemp)
    IN  <<SubSeq(batch, 1, 2), SubSeq(batch, 3, Len(batch))>>

\* saveBlock, lines 310-331: the writes it issues to the KV store, in order:
\* the one batch
saveBlockWrites(id, height, finalized, header, payload, stateStore, removeFromTemp) ==
    <<saveBlockBatch(id, height, finalized, header, payload, stateStore, removeFromTemp)>>

RECURSIVE WriteAll(_, _)
WriteAll(d, batches) ==
    IF batches = <<>> THEN d ELSE WriteAll(BatchWrite(d, Head(batches)), Tail(batches))

\* saveBlock run to its end: the batch written, then the diffs below the
\* finalized height cleared
saveBlock(d, id, height, finalized, header, payload, stateStore, removeFromTemp) ==
    _cleanUntil(
        WriteAll(d, saveBlockWrites(id, height, finalized, header, payload,
                                    stateStore, removeFromTemp)),
        finalized)

\* a slip: the keys the block created are left behind
deleteBlockBatch_keepsCreated(d, id, height, txIDs, fullBlock, stateStore, saveToTemp) ==
    LET diffKey == concatDBKeys(DB_KEY_DIFF_STATE, height)
        diff == decodeDiff(d[diffKey])
    IN  <<BatchDel(concatDBKeys(DB_KEY_BLOCKS_ID, id)),
          BatchDel(concatDBKeys(DB_KEY_BLOCKS_HEIGHT, height))>>
        \o (IF Len(txIDs) > 0
            THEN [i \in 1..Len(txIDs) |->
                    BatchDel(concatDBKeys(DB_KEY_TRANSACTIONS_ID, txIDs[i]))]
                 \o <<BatchDel(concatDBKeys(DB_KEY_TRANSACTIONS_BLOCK_ID, id))>>
            ELSE <<>>)
        \o (IF saveToTemp
            THEN <<BatchPut(concatDBKeys(DB_KEY_TEMPBLOCKS_HEIGHT, height), fullBlock)>>
            ELSE <<>>)
        \o [i \in 1..Len(diff.deleted) |-> BatchPut(diff.deleted[i].key, diff.deleted[i].value)]
        \o [i \in 1..Len(diff.updated) |-> BatchPut(diff.updated[i].key, diff.updated[i].value)]
        \o finalize(stateStore).ops
        \o <<BatchDel(diffKey)>>

\* a slip: the values the block overwrote are not put back
deleteBlockBatch_keepsUpdated(d, id, height, txIDs, fullBlock, stateStore, saveToTemp) ==
    LET diffKey == concatDBKeys(DB_KEY_DIFF_STATE, height)
        diff == decodeDiff(d[diffKey])
    IN  <<BatchDel(concatDBKeys(DB_KEY_BLOCKS_ID, id)),
          BatchDel(concatDBKeys(DB_KEY_BLOCKS_HEIGHT, height))>>
        \o (IF Len(txIDs) > 0
            THEN [i \in 1..Len(txIDs) |->
                    BatchDel(concatDBKeys(DB_KEY_TRANSACTIONS_ID, txIDs[i]))]
                 \o <<BatchDel(concatDBKeys(DB_KEY_TRANSACTIONS_BLOCK_ID, id))>>
            ELSE <<>>)
        \o (IF saveToTemp
            THEN <<BatchPut(concatDBKeys(DB_KEY_TEMPBLOCKS_HEIGHT, height), fullBlock)>>
            ELSE <<>>)
        \o [i \in 1..Len(diff.created) |-> BatchDel(diff.created[i])]
        \o [i \in 1..Len(diff.deleted) |-> BatchPut(diff.deleted[i].key, diff.deleted[i].value)]
        \o finalize(stateStore).ops
        \o <<BatchDel(diffKey)>>

\* a slip: the transactions of the block are left in the store
deleteBlockBatch_keepsTransactions(d, id, height, txIDs, fullBlock, stateStore, saveToTemp) ==
    LET diffKey == concatDBKeys(DB_KEY_DIFF_STATE, height)
        diff == decodeDiff(d[diffKey])
    IN  <<BatchDel(concatDBKeys(DB_KEY_BLOCKS_ID, id)),
          BatchDel(concatDBKeys(DB_KEY_BLOCKS_HEIGHT, height))>>
        \o (IF Len(txIDs) > 0
            THEN <<BatchDel(concatDBKeys(DB_KEY_TRANSACTIONS_BLOCK_ID, id))>>
            ELSE <<>>)
        \o (IF saveToTemp
            THEN <<BatchPut(concatDBKeys(DB_KEY_TEMPBLOCKS_HEIGHT, height), fullBlock)>>
            ELSE <<>>)
        \o [i \in 1..Len(diff.created) |-> BatchDel(diff.created[i])]
        \o [i \in 1..Len(diff.deleted) |-> BatchPut(diff.deleted[i].key, diff.deleted[i].value)]
        \o [i \in 1..Len(diff.updated) |-> BatchPut(diff.updated[i].key, diff.updated[i].value)]
        \o finalize(stateStore).ops
        \o <<BatchDel(diffKey)>>

\* deleteBlock, lines 343-382: the batch; the stored diff is read first
deleteBlockBatch(d, id, height, txIDs, fullBlock, stateStore, saveToTemp) ==
    LET diffKey == concatDBKeys(DB_KEY_DIFF_STATE, height)
        diff == decodeDiff(d[diffKey])
    IN  <<BatchDel(concatDBKeys(DB_KEY_BLOCKS_ID, id)),
          BatchDel(concatDBKeys(DB_KEY_BLOCKS_HEIGHT, height))>>
        \o (IF Len(txIDs) > 0
            THEN [i \in 1..Len(txIDs) |->
                    BatchDel(concatDBKeys(DB_KEY_TRANSACTIONS_ID, txIDs[i]))]
                 \o <<BatchDel(concatDBKeys(DB_KEY_TRANSACTIONS_BLOCK_ID, id))>>
            ELSE <<>>)
        \o (IF saveToTemp
            THEN <<BatchPut(concatDBKeys(DB_KEY_TEMPBLOCKS_HEIGHT, height), fullBlock)>>
            ELSE <<>>)
        \o [i \in 1..Len(diff.created) |-> BatchDel(diff.created[i])]
        \o [i \in 1..Len(diff.deleted) |-> BatchPut(diff.deleted[i].key, diff.deleted[i].value)]
        \o [i \in 1..Len(diff.updated) |-> BatchPut(diff.updated[i].key, diff.updated[i].value)]
        \o finalize(stateStore).ops
        \o <<BatchDel(diffKey)>>

\* a slip: header and height index deleted before the stored diff is read
deleteBlock_unbatched(d, id, height, txIDs, fullBlock, stateStore, saveToTemp) ==
    IF ~Exists(d, concatDBKeys(DB_KEY_DIFF_STATE, height))
    THEN [err |-> NotFoundError,
          db |-> Del(Del(d, concatDBKeys(DB_KEY_BLOCKS_ID, id)),
                     concatDBKeys(DB_KEY_BLOCKS_HEIGHT, height))]
    ELSE [err |-> "none",
          db |-> BatchWrite(d, deleteBlockBatch(d, id, height, txIDs, fullBlock,
                                                stateStore, saveToTemp)),
          diff |-> decodeDiff(d[concatDBKeys(DB_KEY_DIFF_STATE, height)])]

\* deleteBlock: fails with NotFoundError, nothing written, when the diff is absent
deleteBlock(d, id, height, txIDs, fullBlock, stateStore, saveToTemp) ==
    IF ~Exists(d, concatDBKeys(DB_KEY_DIFF_STATE, height))
    THEN [err |-> NotFoundError, db |-> d]
    ELSE [err |-> "none",
          db |-> BatchWrite(d, deleteBlockBatch(d, id, height, txIDs, fullBlock,
                                                stateStore, saveToTemp)),
          diff |-> decodeDiff(d[concatDBKeys(DB_KEY_DIFF_STATE, height)])]

-----------------------------------------------------------------------------
(* The world a job works on, and what it leaves behind *)

NoPeer == "undefined"

\* db, tip and finalized height, the events published or emitted so far (log),
\* the error the job ends with (err) and the one it caught and logged (caught)
World(d, last, finalized) ==
    [db |-> d, lastBlock |-> last, finalizedHeight |-> finalized,
     log |-> <<>>, err |-> "none", caught |-> "none", txId |-> 0,
     cause |-> "none"]

Throw(w, e) == [w EXCEPT !.err = e]

Emit(w, name, block, peerId) ==
    [w EXCEPT !.log = Append(@, [name |-> name, block |-> block.header.id, peerId |-> peerId])]

-----------------------------------------------------------------------------
(* BFT (specification 4.5) *)

\* the tie-break rule: earlier slot; if equal, lower id
Preferable(incoming, current) ==
    \/ incoming.timestamp < current.timestamp
    \/ incoming.timestamp = current.timestamp /\ incoming.id < current.id

forkChoice(incoming, current) ==
    IF incoming.id = current.id THEN IDENTICAL_BLOCK
    ELSE IF incoming.height = current.height + 1 /\ incoming.previousBlockID = current.id
    THEN VALID_BLOCK
    ELSE IF incoming.height = current.height /\ incoming.generator = current.generator
    THEN DOUBLE_FORGING
    ELSE IF incoming.height = current.height /\ Preferable(incoming, current)
    THEN TIE_BREAK
    ELSE IF incoming.height > current.height
    THEN DIFFERENT_CHAIN
    ELSE DISCARD

\* a status none of the six: what a BFT module out of step with the processor
\* may answer
UNKNOWN_STATUS == "UNKNOWN"

\* what bft.forkChoice may answer for a block: the status of the rule, or a
\* status the processor does not know
ForkAnswers(incoming, current) == {forkChoice(incoming, current), UNKNOWN_STATUS}

\* the height the prevote/precommit accounting locks in once this header is counted
Finalizes(header) ==
    IF VariantTable[header.signature].finalizes = "parent" THEN header.height - 1 ELSE 0

\* bft.applyBlockHeader: the finalized height advances, never decreases
bft_applyBlockHeader(w, header) ==
    [w EXCEPT !.finalizedHeight = Max(@, Finalizes(header))]

\* bft.init: the finalized height stored with the last saved block
bft_init(w) == [w EXCEPT !.finalizedHeight = getFinalizedHeight(w.db)]

-----------------------------------------------------------------------------
(* Chain module (specification 4.4, 4.6) over the Storage *)

chain_genesisBlockExist(w, genesisBlock) == isBlockPersisted(w.db, genesisBlock.header.id)

\* chain.verifyBlockHeader: the header continues the tip and passes the
\* signature, slot and generator checks
chain_verifyBlockHeader(w, block) ==
    /\ block.header.height = w.lastBlock.header.height + 1
    /\ block.header.previousBlockID = w.lastBlock.header.id
    /\ VariantOf(block).fails # "verifyBlockHeader"

EncodedPayload(block) ==
    [i \in 1..Len(block.payload) |->
        [id |-> block.payload[i].id, value |-> encodeTransaction(block.payload[i])]]

\* chain.saveBlock: persists through Storage.saveBlock, then moves the tip
chain_saveBlock(w, block, stateStore, finalized, removeFromTempTable) ==
    [Emit(w, "chain:saveBlock", block, NoPeer) EXCEPT
        !.db = saveBlock(w.db, block.header.id, block.header.height, finalized,
                         encodeBlockHeader(block.header), EncodedPayload(block),
                         stateStore, removeFromTempTable),
        !.lastBlock = block]

\* chain.removeBlock: loads the previous block, deletes through
\* Storage.deleteBlock, then moves the tip back
chain_removeBlock(w, block, stateStore, saveTempBlock) ==
    LET secondLastBlock == getBlockByID(w.db, block.header.previousBlockID)
        deleted == deleteBlock(w.db, block.header.id, block.header.height,
                               [i \in 1..Len(block.payload) |-> block.payload[i].id],
                               encodeBlock(block), stateStore, saveTempBlock)
    IN  IF secondLastBlock.err # "none" THEN Throw(w, "PreviousBlock is null")
        ELSE IF deleted.err # "none" THEN Throw(w, deleted.err)
        ELSE [Emit(w, "chain:removeBlock", block, NoPeer) EXCEPT
                !.db = deleted.db,
                !.lastBlock = decodeRawBlock(secondLastBlock.value)]

\* chain.init: the tip is the last block of the storage
chain_init(w) == [w EXCEPT !.lastBlock = decodeRawBlock(getLastBlock(w.db).value)]

-----------------------------------------------------------------------------
(* Modules: what the registered hooks and assets do to the state store *)

Account(n) == concatDBKeys(DB_KEY_ACCOUNTS, n)

ChainState(n) == concatDBKeys(DB_KEY_CHAIN_STATE, n)

\* customAsset.apply of one transaction; "bad" throws
ApplyAsset(ss, d, tx) ==
    IF tx.type = "credit"
    THEN LET cur == ssGet(ss, d, Account(1))
         IN  ssSet(ss, d, Account(1), IF cur.present THEN cur.value + 1 ELSE 1)
    ELSE IF ssGet(ss, d, Account(2)).present
    THEN ssDel(ss, d, Account(2))
    ELSE ssSet(ss, d, Account(2), 1)

\* the payload loop of _processValidated, lines 393-415, and of
\* verifyTransactions, lines 332-352: the hooks and the asset of each
\* transaction in payload order, up to the first that throws.  err: what was
\* thrown; txId: the transaction that threw
RECURSIVE ApplyPayload(_, _, _)
ApplyPayload(ss, d, txs) ==
    IF txs = <<>> THEN [err |-> "none", stateStore |-> ss, txId |-> 0]
    ELSE IF Head(txs).type = "bad"
    THEN [err |-> "transaction", stateStore |-> ss, txId |-> Head(txs).id]
    ELSE ApplyPayload(ApplyAsset(ss, d, Head(txs)), d, Tail(txs))

\* an afterBlockApply hook records the height it ran for
AfterBlockApply(ss, d, block) == ssSet(ss, d, ChainState(1), block.header.height)

\* chain.applyGenesisBlock and the afterGenesisBlockApply hooks
ApplyGenesis(ss, d) == ssSet(ssSet(ss, d, Account(2), 1), d, ChainState(1), 0)

-----------------------------------------------------------------------------
(* Processor (part_001) *)

ApplyPenaltyError == "ApplyPenaltyError"

\* a slip: nothing validated
_validate_nothing(block) == "none"

\* _validate: "none", or the error it throws
_validate(block) ==
    IF block.header.version # BLOCK_VERSION THEN ApplyPenaltyError
    ELSE IF VariantOf(block).fails = "validate" THEN ApplyPenaltyError
    ELSE "none"

\* a slip in the guard: only blocks strictly below the finalized height refused
_deleteBlock_strictlyBelow(w, block, saveTempBlock) ==
    IF block.header.height < w.finalizedHeight
    THEN Throw(w, "Can not delete block below or same as finalized height")
    ELSE chain_removeBlock(w, block, NewStateStore, saveTempBlock)

_deleteBlock(w, block, saveTempBlock) ==
    IF block.header.height <= w.finalizedHeight
    THEN Throw(w, "Can not delete block below or same as finalized height")
    ELSE chain_removeBlock(w, block, NewStateStore, saveTempBlock)

TransactionApplyError == "TransactionApplyError"

\* verifyTransactions, lines 325-361: the transactions are applied to the state
\* store of the caller; what one of them throws is wrapped in a
\* TransactionApplyError with its id, lines 353-359
verifyTransactions(w, transactions) ==
    LET applied == ApplyPayload(NewStateStore, w.db, transactions)
    IN  IF applied.err = "none" THEN w
        ELSE [w EXCEPT !.err = TransactionApplyError, !.txId = applied.txId,
                       !.cause = applied.err]

\* a slip: the condition inverted
Broadcast_inverted(w, block, skipBroadcast) ==
    IF skipBroadcast THEN Emit(w, EVENT_PROCESSOR_BROADCAST_BLOCK, block, NoPeer) ELSE w

\* lines 378-383: BROADCAST_BLOCK unless suppressed
Broadcast(w, block, skipBroadcast) ==
    IF skipBroadcast THEN w ELSE Emit(w, EVENT_PROCESSOR_BROADCAST_BLOCK, block, NoPeer)

\* a slip: the block is saved with the height its own header finalizes, not
\* with the finalized height of the BFT
_processValidated_headerFinality(w, block, skipBroadcast, removeFromTempTable) ==
    IF ~chain_verifyBlockHeader(w, block) THEN Throw(w, "verifyBlockHeader")
    ELSE
    LET w1 == Broadcast(w, block, skipBroadcast)
    IN  IF VariantOf(block).fails = "beforeBlockApply" THEN Throw(w1, "beforeBlockApply")
        ELSE
        LET w2 == bft_applyBlockHeader(w1, block.header)
            applied == ApplyPayload(NewStateStore, w2.db, block.payload)
        IN  IF applied.err # "none" THEN Throw(w2, applied.err)
            ELSE IF VariantOf(block).fails = "afterBlockApply" THEN Throw(w2, "afterBlockApply")
            ELSE chain_saveBlock(w2, block, AfterBlockApply(applied.stateStore, w2.db, block),
                                 Finalizes(block.header), removeFromTempTable)

\* a slip: the block saved before the afterBlockApply hooks have run
_processValidated_saveFirst(w, block, skipBroadcast, removeFromTempTable) ==
    IF ~chain_verifyBlockHeader(w, block) THEN Throw(w, "verifyBlockHeader")
    ELSE
    LET w1 == Broadcast(w, block, skipBroadcast)
    IN  IF VariantOf(block).fails = "beforeBlockApply" THEN Throw(w1, "beforeBlockApply")
        ELSE
        LET w2 == bft_applyBlockHeader(w1, block.header)
            applied == ApplyPayload(NewStateStore, w2.db, block.payload)
            saved == chain_saveBlock(w2, block, applied.stateStore, w2.finalizedHeight,
                                     removeFromTempTable)
        IN  IF applied.err # "none" THEN Throw(w2, applied.err)
            ELSE IF VariantOf(block).fails = "afterBlockApply"
            THEN Throw(saved, "afterBlockApply")
            ELSE chain_saveBlock(w2, block, AfterBlockApply(applied.stateStore, w2.db, block),
                                 w2.finalizedHeight, removeFromTempTable)

_processValidated(w, block, skipBroadcast, removeFromTempTable) ==
    IF ~chain_verifyBlockHeader(w, block) THEN Throw(w, "verifyBlockHeader")
    ELSE
    LET w1 == Broadcast(w, block, skipBroadcast)
    IN  IF VariantOf(block).fails = "beforeBlockApply" THEN Throw(w1, "beforeBlockApply")
        ELSE
        LET w2 == bft_applyBlockHeader(w1, block.header)
            applied == ApplyPayload(NewStateStore, w2.db, block.payload)
        IN  IF applied.err # "none" THEN Throw(w2, applied.err)
            ELSE IF VariantOf(block).fails = "afterBlockApply" THEN Throw(w2, "afterBlockApply")
            ELSE chain_saveBlock(w2, block, AfterBlockApply(applied.stateStore, w2.db, block),
                                 w2.finalizedHeight, removeFromTempTable)

\* a slip: the incoming block applied on top of the tip it should replace
TieBreak_noDelete(w, block, lastB) ==
    LET w1 == Emit(w, "app:chain:fork", block, NoPeer)
    IN  IF _validate(block) # "none" THEN Throw(w1, _validate(block))
        ELSE
        LET w3 == _processValidated(w1, block, FALSE, FALSE)
        IN  IF w3.err = "none" THEN w3
            ELSE _processValidated([w3 EXCEPT !.err = "none", !.caught = w3.err],
                                   lastB, TRUE, FALSE)

\* a slip: the previous tip dropped for good when the incoming block fails
TieBreak_noRestore(w, block, lastB) ==
    LET w1 == Emit(w, "app:chain:fork", block, NoPeer)
    IN  IF _validate(block) # "none" THEN Throw(w1, _validate(block))
        ELSE
        LET w2 == _deleteBlock(w1, lastB, FALSE)
        IN  IF w2.err # "none" THEN w2
            ELSE
            LET w3 == _processValidated(w2, block, FALSE, FALSE)
            IN  IF w3.err = "none" THEN w3
                ELSE [w3 EXCEPT !.err = "none", !.caught = w3.err]

\* the TIE_BREAK branch of process, lines 227-256
TieBreak(w, block, lastB) ==
    LET w1 == Emit(w, "app:chain:fork", block, NoPeer)
    IN  IF _validate(block) # "none" THEN Throw(w1, _validate(block))
        ELSE
        LET previousLastBlock == lastB
            w2 == _deleteBlock(w1, lastB, FALSE)
        IN  IF w2.err # "none" THEN w2
            ELSE
            LET w3 == _processValidated(w2, block, FALSE, FALSE)
            IN  IF w3.err = "none" THEN w3
                ELSE _processValidated([w3 EXCEPT !.err = "none", !.caught = w3.err],
                                       previousLastBlock, TRUE, FALSE)

\* lines 177-187
Discard(w, block) == Emit(w, "app:chain:fork", block, NoPeer)

\* a slip: the identical block treated like a discarded one
IdenticalBlock_published(w, block) == Emit(w, "app:chain:fork", block, NoPeer)

\* lines 188-194
IdenticalBlock(w, block) == w

\* a slip: the peer penalized here, not by the transport layer
DoubleForging_penalizes(w, block) ==
    Emit(Emit(w, "app:chain:fork", block, NoPeer), "app:applyPenaltyOnPeer", block, NoPeer)

\* lines 195-208
DoubleForging(w, block) == Emit(w, "app:chain:fork", block, NoPeer)

\* a slip: the fork published before the synchronizer is told, and without the peer
DifferentChain_swapped(w, block, peerId) ==
    Emit(Emit(w, "app:chain:fork", block, NoPeer),
         EVENT_PROCESSOR_SYNC_REQUIRED, block, NoPeer)

\* lines 210-225
DifferentChain(w, block, peerId) ==
    Emit(Emit(w, EVENT_PROCESSOR_SYNC_REQUIRED, block, peerId),
         "app:chain:fork", block, NoPeer)

\* lines 258-263
ValidBlock(w, block) ==
    IF _validate(block) # "none" THEN Throw(w, _validate(block))
    ELSE _processValidated(w, block, FALSE, FALSE)

\* a slip: the answer of the fork choice not checked against the list
KnownForkStatus_unchecked(forkStatus) == TRUE

\* line 171: forkStatusList.includes(forkStatus)
KnownForkStatus(forkStatus) == forkStatus \in forkStatusList

\* the job of process, lines 163-264; forkStatus is what bft.forkChoice answered
\* at line 169
processJob(w, block, peerId, forkStatus) ==
    LET lastB == w.lastBlock
    IN  IF ~KnownForkStatus(forkStatus) THEN Throw(w, "Unknown fork status")
        ELSE IF forkStatus = DISCARD THEN Discard(w, block)
        ELSE IF forkStatus = IDENTICAL_BLOCK THEN IdenticalBlock(w, block)
        ELSE IF forkStatus = DOUBLE_FORGING THEN DoubleForging(w, block)
        ELSE IF forkStatus = DIFFERENT_CHAIN THEN DifferentChain(w, block, peerId)
        ELSE IF forkStatus = TIE_BREAK THEN TieBreak(w, block, lastB)
        ELSE ValidBlock(w, block)

\* a slip: the block broadcast like one that process has applied
processValidatedJob_broadcasts(w, block, removeFromTempTable) ==
    _processValidated(w, block, FALSE, removeFromTempTable)

\* the job of processValidated, lines 280-289
processValidatedJob(w, block, removeFromTempTable) ==
    _processValidated(w, block, TRUE, removeFromTempTable)

\* the job of deleteLastBlock, lines 298-306
deleteLastBlockJob(w, saveTempBlock) == _deleteBlock(w, w.lastBlock, saveTempBlock)

\* init, lines 135-150, with genesisExist as line 134 read it: a genesis block
\* not yet stored is validated, applied, handed to the afterGenesisBlockApply
\* hooks and saved with finalized height 0; then chain.init and bft.init
initJobFrom(w, genesisBlock, genesisExist) ==
    LET validated == Emit(w, "chain:validateGenesisBlockHeader", genesisBlock, NoPeer)
        applied == Emit(validated, "hooks:afterGenesisBlockApply", genesisBlock, NoPeer)
        w1 == IF genesisExist THEN w
              ELSE chain_saveBlock(applied, genesisBlock,
                                   ApplyGenesis(NewStateStore, w.db), 0, FALSE)
    IN  bft_init(chain_init(w1))

\* init without the test of line 137
initJob_unguarded(w, genesisBlock) == initJobFrom(w, genesisBlock, FALSE)

\* init, lines 126-151
initJob(w, genesisBlock) ==
    initJobFrom(w, genesisBlock, chain_genesisBlockExist(w, genesisBlock))

-----------------------------------------------------------------------------
(* The node: jobs of the Processor, one at a time *)

NoJob ==
    [op |-> "none", block |-> GenesisBlock, peerId |-> NoPeer, flag |-> FALSE,
     status |-> "none",
     pre |-> [db |-> EmptyDB, lastBlock |-> GenesisBlock, finalizedHeight |-> 0],
     log |-> <<>>, err |-> "none", caught |-> "none", txId |-> 0,
     cause |-> "none"]

\* no tip has been deleted by the job before
NoUndo == [valid |-> FALSE, block |-> GenesisBlock, db |-> EmptyDB, reapplied |-> FALSE]

\* what the job now running means for a tip deleted by the job before it
NextUndo(op, block, result) ==
    IF op = "deleteLastBlock" /\ result.err = "none"
    THEN [valid |-> TRUE, block |-> lastBlock, db |-> db, reapplied |-> FALSE]
    ELSE IF undo.valid /\ ~undo.reapplied /\ op \in {"process", "processValidated"}
            /\ block = undo.block
    THEN [undo EXCEPT !.reapplied = TRUE]
    ELSE NoUndo

\* Storage with no call in flight and none to look back at.  op, err, block: the
\* call in flight or made last; pending: the writes still to issue; pre, post:
\* the store when the call began and as the whole batch leaves it; keys: the
\* entries the call is about; seen: what a reader interleaved with the call read
\* of them; follows: the deleteBlock came right after the saveBlock of the same
\* block; before: the state keys as they were before that saveBlock; temp: the
\* removeFromTemp or saveToTemp the call was made with.
StorageIdle ==
    [pc |-> "idle", op |-> "none", err |-> "none", block |-> GenesisBlock, finalized |-> 0,
     pending |-> <<>>, written |-> 0, pre |-> EmptyDB, post |-> EmptyDB, keys |-> {},
     seen |-> [taken |-> FALSE, view |-> <<>>], follows |-> FALSE, before |-> <<>>,
     temp |-> FALSE]

\* The Processor with no call made: _stop is false (line 72) and the queue of
\* line 86 is empty.  stop: _stop; active: the queue takes jobs; queue: the jobs
\* added and not started, by entry point; running: the job in flight and the
\* tip it read when it started; init: a call of init and what it read at line
\* 134; stopping: a call of stop(); inflight: the job in flight when stop()
\* was called; calls, last: the calls made and how the last one returned.
QueueIdle ==
    [stop |-> FALSE, active |-> TRUE, queue |-> <<>>,
     running |-> [pc |-> "idle", op |-> "none", tip |-> GenesisBlock],
     init |-> [pc |-> "none", exist |-> FALSE],
     stopping |-> "no", inflight |-> "none",
     calls |-> 0, last |-> "none"]

\* register, lines 97-124 ----------------------------------------------------

\* the five pipelines of lines 73-79, in the order register fills them
HookNames ==
    <<"afterGenesisBlockApply", "beforeBlockApply", "beforeTransactionApply",
      "afterTransactionApply", "afterBlockApply">>

\* no module registered, every pipeline empty (lines 71, 88-94); err: how the
\* last register call ended, customModule: its argument, pre: the module list
\* and the pipelines it found
NoModules ==
    [modules |-> <<>>, hooks |-> [h \in Range(HookNames) |-> <<>>]]

RegistryIdle ==
    [modules |-> NoModules.modules, hooks |-> NoModules.hooks, err |-> "none",
     customModule |-> [id |-> 0, hooks |-> {}], pre |-> NoModules]

\* no block applied yet.  transactions: the length of the payload;
\* skipBroadcast: the option of the call; failAt: which of the steps threw, 0
\* when none did; steps: the steps that ran, in order; err: whether the call
\* threw
PipelineIdle ==
    [transactions |-> 0, skipBroadcast |-> FALSE, failAt |-> 0, steps |-> <<>>,
     err |-> FALSE]

\* Bus (bus.ts) -----------------------------------------------------------------

\* a JavaScript object used as a hash map: no key set
EmptyObject == <<>>

\* the bus as constructed, lines 100-102.  reassigned: the names that were
\* assigned while they were set; moduleAlias, err: the last registerChannel
\* call and how it ended; named: whether it named an event or an action that
\* was registered when it was called
BusIdle ==
    [events |-> EmptyObject, actions |-> EmptyObject, channels |-> EmptyObject,
     reassigned |-> {}, err |-> "none", moduleAlias |-> <<>>, named |-> FALSE]

\* no registerChannel call looked at yet.  eventsList, actionsList: the
\* arguments of the call; events, actions, channels: the bus as the call found it
ChannelCallIdle ==
    [eventsList |-> <<>>, actionsList |-> <<>>,
     events |-> EmptyObject, actions |-> EmptyObject, channels |-> EmptyObject]

\* JSON null, and a JSON-RPC request object; a value carries every field so
\* that values compare
JsonNull == [t |-> "null", jsonrpc |-> "", id |-> 0, method |-> <<>>]

\* no invoke call yet.  rawRequest: the argument of the last call; behaviour:
\* what the handler of the channel does when invoked; error: the class of the
\* error the call threw; code, id: the code and the id of its JSON-RPC error
\* response; invoked: the channel invocations made; sent: the request went to
\* the rpc client of a child process; resolved: the call returned a response
InvokeIdle ==
    [rawRequest |-> [form |-> "undefined", text |-> "", value |-> JsonNull],
     behaviour |-> "returns", error |-> "none", code |-> 0, id |-> 0,
     invoked |-> <<>>, sent |-> FALSE, resolved |-> FALSE]

\* nothing routed to a child process yet.  _rpcRequestIds: the pending ids, line
\* 104; sending: the ids whose dealer send has not settled; listeners: the ids
\* with a once-listener on the emitter; failed: the ids whose send rejected;
\* resolved: for each id the request id of the response its promise resolved
\* with, 0 while it has not; arrived: the ids a response came for while they
\* were pending; dropped: the ids of the responses that were not pending
RpcIdle ==
    [_rpcRequestIds |-> {}, sending |-> {}, listeners |-> {}, failed |-> {},
     resolved |-> [id \in 1..MaxInvokes |-> 0], arrived |-> {}, dropped |-> {}]

\* Transport (specification 4.9) -------------------------------------------------

RateLimitedHandlers == {"handleRPCGetTransactions", "handleEventPostTransactionsAnnouncement"}

TransportPeers == {"peerA", "peerB"}

\* no call handled yet.  clock: milliseconds since start; window: for each peer
\* and handler the times of its calls still inside the window; calls: every
\* call handled, with its time and the penalties it applied
TransportIdle ==
    [clock |-> 0,
     window |-> [k \in TransportPeers \X RateLimitedHandlers |-> <<>>],
     calls |-> <<>>]

\* the broadcaster with nothing queued.  transactionIdQueue: the ids waiting
\* for a release; evicted: the ids that have left the transaction pool; made:
\* how many transactions were created; accepted: the ids the queue took, in
\* order; released: the ids the ticks took off the queue, in order;
\* announcements: the postTransactionsAnnouncement events published; ticks:
\* the interval ticks fired; id: the transaction of the last
\* handleBroadcastTransaction call; again: that transaction had been handed
\* over before
BroadcasterIdle ==
    [transactionIdQueue |-> <<>>, evicted |-> {}, made |-> 0,
     accepted |-> <<>>, released |-> <<>>, announcements |-> <<>>, ticks |-> 0,
     id |-> 0, again |-> FALSE]

\* the transactions peers announce and send: 1 is in the pool from the start,
\* 2 is in the database, 3 is new and sound, 4 fails validation, 5 is sound
\* and the pool turns it down
PeerTxIds == 1..5

\* no request handled yet.  pool: the ids in the transaction pool; handler,
\* peerId, data: the last call; poolBefore: the pool it found; response: what
\* the peer answered its request with; penalties: the app:applyPenaltyOnPeer calls it
\* made; rejected: the error it rejected with; returned: what it resolved
\* with; requested: its requestFromPeer calls; received, validated, inserted:
\* the ids it deserialized, handed to validateTransactions, and got into the
\* pool
PeerIdle ==
    [pool |-> {1}, handler |-> "none", peerId |-> "none",
     data |-> [schema |-> "empty", ids |-> <<>>], poolBefore |-> {1},
     response |-> <<>>,
     penalties |-> <<>>, rejected |-> "none", returned |-> <<>>,
     requested |-> <<>>, received |-> <<>>, validated |-> <<>>, inserted |-> <<>>]

Now == World(db, lastBlock, finalizedHeight)

\* the queue runs one job to its end: the world it leaves, and the record of it
Run(op, block, peerId, flag, status, result) ==
    /\ job.op = "none"
    /\ db' = result.db
    /\ lastBlock' = result.lastBlock
    /\ finalizedHeight' = result.finalizedHeight
    /\ job' = [op |-> op, block |-> block, peerId |-> peerId, flag |-> flag,
               status |-> status,
               pre |-> [db |-> db, lastBlock |-> lastBlock,
                        finalizedHeight |-> finalizedHeight],
               log |-> result.log, err |-> result.err, caught |-> result.caught,
               txId |-> result.txId, cause |-> result.cause]
    /\ undo' = NextUndo(op, block, result)
    /\ UNCHANGED <<st, aux>>

Init ==
    /\ db = EmptyDB
    /\ lastBlock = GenesisBlock
    /\ finalizedHeight = 0
    /\ initialized = FALSE
    /\ job = NoJob
    /\ undo = NoUndo
    /\ st = StorageIdle
    /\ pq = QueueIdle
    /\ reg = RegistryIdle
    /\ bus = BusIdle
    /\ net = TransportIdle
    /\ bc = BroadcasterIdle
    /\ rx = PeerIdle
    /\ inv = InvokeIdle
    /\ rpc = RpcIdle
    /\ pl = PipelineIdle
    /\ rc = ChannelCallIdle

ProcessorInit ==
    /\ Run("init", GenesisBlock, NoPeer, FALSE, "none", initJob(Now, GenesisBlock))
    /\ initialized' = TRUE

Process(block, peerId, forkStatus) ==
    /\ initialized
    /\ forkStatus \in ForkAnswers(block.header, lastBlock.header)
    /\ Run("process", block, peerId, FALSE, forkStatus,
           processJob(Now, block, peerId, forkStatus))
    /\ UNCHANGED initialized

ProcessValidated(block, removeFromTempTable) ==
    /\ initialized
    /\ Run("processValidated", block, NoPeer, removeFromTempTable, "none",
           processValidatedJob(Now, block, removeFromTempTable))
    /\ UNCHANGED initialized

\* the synchronizer, the only caller that asks for a temporary copy, holds
\* at most one temporary block at a time here
DeleteLastBlock(saveTempBlock) ==
    /\ initialized
    /\ saveTempBlock => isTempBlockEmpty(db)
    /\ Run("deleteLastBlock", lastBlock, NoPeer, saveTempBlock, "none",
           deleteLastBlockJob(Now, saveTempBlock))
    /\ UNCHANGED initialized

\* a caller verifies the payload of a block against the state of the tip
VerifyTransactions(block) ==
    /\ initialized
    /\ Run("verifyTransactions", block, NoPeer, FALSE, "none",
           verifyTransactions(Now, block.payload))
    /\ UNCHANGED initialized

\* the caller's promise settles; the queue takes the next job
JobSettled ==
    /\ job.op # "none"
    /\ job' = NoJob
    /\ undo' = IF undo.reapplied THEN NoUndo ELSE undo
    /\ UNCHANGED <<db, lastBlock, finalizedHeight, initialized, st, aux>>

Next ==
    \/ ProcessorInit
    \/ \E block \in Blocks, peerId \in PeerIds \cup {NoPeer} :
          \E forkStatus \in ForkAnswers(block.header, lastBlock.header) :
            Process(block, peerId, forkStatus)
    \/ \E block \in Blocks, removeFromTempTable \in BOOLEAN :
            ProcessValidated(block, removeFromTempTable)
    \/ \E saveTempBlock \in BOOLEAN : DeleteLastBlock(saveTempBlock)
    \/ \E block \in BlocksAt(1) : VerifyTransactions(block)
    \/ JobSettled

Spec == Init /\ [][Next]_vars

-----------------------------------------------------------------------------
(* The Processor under concurrent callers: the calls, the job queue, init and
   stop, step by step (part_001 lines 126-307; the queue: specification 5) *)

EntryPoints == {"process", "processValidated", "deleteLastBlock"}

\* the test of lines 160, 277 and 295 without its condition
_stop_ignored(p) == FALSE

\* if (this._stop) return;  lines 160-162, 277-279, 295-297
_stop(p) == p.stop

\* JobQueue.add: a stopped queue refuses the job
JobQueue_add(p, op) ==
    IF p.active
    THEN [p EXCEPT !.queue = Append(@, op), !.last = "queued"]
    ELSE [p EXCEPT !.last = "refused"]

\* JobQueue.stop: no further job is taken; the jobs not yet started are either
\* dropped or left to run before stop settles
JobQueue_stop(p, drop) ==
    [p EXCEPT !.active = FALSE, !.queue = IF drop THEN <<>> ELSE @]

\* JobQueue.stop has settled: nothing in flight, nothing left to run
JobQueue_stopped(p) == p.running.pc = "idle" /\ p.queue = <<>>

\* process, processValidated, deleteLastBlock up to _jobQueue.add
Call(p, op) == IF _stop(p) THEN [p EXCEPT !.last = "noop"] ELSE JobQueue_add(p, op)

\* stop() returning without the await of line 155
stopSettled_noAwait(p) == TRUE

\* await this._jobQueue.stop(), line 155
stopSettled(p) == JobQueue_stopped(p)

\* a caller calls one of the three entry points
QCall(op) ==
    /\ initialized
    /\ pq.calls < MaxCalls
    /\ pq' = [Call(pq, op) EXCEPT !.calls = @ + 1]
    /\ UNCHANGED <<nodeVars, st, sideVars>>

\* the queue starts its next job, which reads the tip (lines 169, 298)
QStart ==
    /\ pq.running.pc = "idle"
    /\ pq.queue # <<>>
    /\ pq' = [pq EXCEPT !.queue = Tail(@),
                        !.running = [pc |-> "decided", op |-> Head(pq.queue),
                                     tip |-> lastBlock]]
    /\ UNCHANGED <<nodeVars, st, sideVars>>

\* what the job in flight does with the arguments of its call
QResult(op, block, peerId, flag, forkStatus) ==
    IF op = "process" THEN processJob(Now, block, peerId, forkStatus)
    ELSE IF op = "processValidated" THEN processValidatedJob(Now, block, flag)
    ELSE deleteLastBlockJob(Now, flag)

\* the job in flight runs to its end; only process takes a peer and a fork
\* status, and deleteLastBlock takes no block
QFinish(block, peerId, flag, forkStatus) ==
    /\ pq.running.pc = "decided"
    /\ pq.running.op = "process" => ~flag
    /\ pq.running.op # "process" => peerId = NoPeer /\ forkStatus = "none"
    /\ pq.running.op = "deleteLastBlock" => block = lastBlock
    /\ LET result == QResult(pq.running.op, block, peerId, flag, forkStatus)
       IN  /\ db' = result.db
           /\ lastBlock' = result.lastBlock
           /\ finalizedHeight' = result.finalizedHeight
    /\ pq' = [pq EXCEPT !.running = QueueIdle.running,
                        !.inflight = IF @ = "running" THEN "completed" ELSE @]
    /\ UNCHANGED <<initialized, job, undo, st, sideVars>>

\* init is called: it reads whether the genesis block is stored (line 134)
QInitStart ==
    /\ pq.init.pc = "none"
    /\ pq' = [pq EXCEPT !.init = [pc |-> "checked",
                                  exist |-> chain_genesisBlockExist(Now, GenesisBlock)]]
    /\ UNCHANGED <<nodeVars, st, sideVars>>

\* init runs lines 135-150 to the end
QInitFinish ==
    /\ pq.init.pc = "checked"
    /\ LET result == initJobFrom(Now, GenesisBlock, pq.init.exist)
       IN  /\ db' = result.db
           /\ lastBlock' = result.lastBlock
           /\ finalizedHeight' = result.finalizedHeight
    /\ initialized' = TRUE
    /\ pq' = [pq EXCEPT !.init = QueueIdle.init]
    /\ UNCHANGED <<job, undo, st, sideVars>>

\* stop() is called: lines 154 and 155 up to the await
QStop(drop) ==
    /\ ~pq.stop
    /\ pq' = [JobQueue_stop(pq, drop) EXCEPT
                 !.stop = TRUE, !.stopping = "waiting",
                 !.inflight = IF pq.running.pc = "decided" THEN "running" ELSE "none"]
    /\ UNCHANGED <<nodeVars, st, sideVars>>

\* stop() resolves
QStopResolve ==
    /\ pq.stopping = "waiting"
    /\ stopSettled(pq)
    /\ pq' = [pq EXCEPT !.stopping = "resolved"]
    /\ UNCHANGED <<nodeVars, st, sideVars>>

NextQueue ==
    \/ \E op \in EntryPoints : QCall(op)
    \/ QStart
    \/ \E block \in Blocks \cup {GenesisBlock}, peerId \in PeerIds \cup {NoPeer},
          flag \in BOOLEAN :
          \E forkStatus \in IF pq.running.op = "process"
                            THEN ForkAnswers(block.header, pq.running.tip.header)
                            ELSE {"none"} :
            QFinish(block, peerId, flag, forkStatus)
    \/ QInitStart
    \/ QInitFinish
    \/ \E drop \in BOOLEAN : QStop(drop)
    \/ QStopResolve

SpecQueue == Init /\ [][NextQueue]_vars

-----------------------------------------------------------------------------
(* Processor.register (part_001 lines 97-124) *)

\* the modules handed to register: an id, and the hooks the module defines
ModuleShapes ==
    {Range(HookNames), {"afterGenesisBlockApply", "afterBlockApply"}, {}}

Modules == [id : 1..MaxModuleId, hooks : ModuleShapes]

\* the find of line 98 never finding
existingModule_notFound(r, customModule) == FALSE

\* this._modules.find(m => m.id === customModule.id), line 98
existingModule(r, customModule) ==
    \E i \in 1..Len(r.modules) : r.modules[i].id = customModule.id

\* register: throws on a registered id before anything is piped or pushed;
\* else pipes each hook the module defines and pushes the module
register(r, customModule) ==
    IF existingModule(r, customModule)
    THEN [r EXCEPT !.err = "Module id is already registered"]
    ELSE [r EXCEPT !.err = "none",
                   !.hooks = [h \in Range(HookNames) |->
                                IF h \in customModule.hooks
                                THEN Append(r.hooks[h], customModule.id)
                                ELSE r.hooks[h]],
                   !.modules = Append(@, customModule)]

Register(customModule) ==
    /\ Len(reg.modules) <= MaxModuleId
    /\ reg' = [register(reg, customModule) EXCEPT
                  !.customModule = customModule,
                  !.pre = [modules |-> reg.modules, hooks |-> reg.hooks]]
    /\ UNCHANGED <<nodeVars, st, pq, bus, net, bc, rx, inv, rpc, pl, rc>>

NextRegister == \E customModule \in Modules : Register(customModule)

SpecRegister == Init /\ [][NextRegister]_vars

-----------------------------------------------------------------------------
(* Processor._processValidated (part_001 lines 363-431), step by step, over
   the hooks that register piped *)

\* a step of block application: a call of the chain or the BFT, an event, a
\* hook of a module, or the asset of a transaction
Step(name, module, tx) == [name |-> name, module |-> module, tx |-> tx]

\* a pipeline run: the hooks of a point in the order they were piped
HookRun(r, hook, tx) == [i \in 1..Len(r.hooks[hook]) |-> Step(hook, r.hooks[hook][i], tx)]

\* lines 393-415 for one transaction
TransactionSteps(r, tx) ==
    HookRun(r, "beforeTransactionApply", tx)
    \o <<Step("codec.decode", 0, tx), Step("asset.apply", 0, tx)>>
    \o HookRun(r, "afterTransactionApply", tx)

RECURSIVE PayloadSteps(_, _, _)
PayloadSteps(r, tx, transactions) ==
    IF tx > transactions THEN <<>>
    ELSE TransactionSteps(r, tx) \o PayloadSteps(r, tx + 1, transactions)

\* a slip: the block saved before the afterBlockApply hooks
_processValidatedSteps_saveEarly(r, transactions, skipBroadcast) ==
    <<Step("chain.verifyBlockHeader", 0, 0), Step("bft.verifyBlockHeader", 0, 0)>>
    \o (IF skipBroadcast THEN <<>> ELSE <<Step(EVENT_PROCESSOR_BROADCAST_BLOCK, 0, 0)>>)
    \o HookRun(r, "beforeBlockApply", 0)
    \o <<Step("bft.applyBlockHeader", 0, 0)>>
    \o PayloadSteps(r, 1, transactions)
    \o <<Step("chain.saveBlock", 0, 0)>>
    \o HookRun(r, "afterBlockApply", 0)

\* the steps of _processValidated when none throws, lines 373-428
_processValidatedSteps(r, transactions, skipBroadcast) ==
    <<Step("chain.verifyBlockHeader", 0, 0), Step("bft.verifyBlockHeader", 0, 0)>>
    \o (IF skipBroadcast THEN <<>> ELSE <<Step(EVENT_PROCESSOR_BROADCAST_BLOCK, 0, 0)>>)
    \o HookRun(r, "beforeBlockApply", 0)
    \o <<Step("bft.applyBlockHeader", 0, 0)>>
    \o PayloadSteps(r, 1, transactions)
    \o HookRun(r, "afterBlockApply", 0)
    \o <<Step("chain.saveBlock", 0, 0)>>

\* one call of _processValidated: the steps run one after the other, each
\* awaited, and a throw leaves the call at the step that threw
ApplyBlockSteps(transactions, skipBroadcast, failAt) ==
    LET steps == _processValidatedSteps(reg, transactions, skipBroadcast)
    IN  /\ failAt \in 0..Len(steps)
        /\ failAt # 0 => steps[failAt].name # EVENT_PROCESSOR_BROADCAST_BLOCK
        /\ pl' = [transactions |-> transactions, skipBroadcast |-> skipBroadcast,
                  failAt |-> failAt,
                  steps |-> IF failAt = 0 THEN steps ELSE SubSeq(steps, 1, failAt),
                  err |-> failAt # 0]
        /\ UNCHANGED <<nodeVars, st, pq, reg, bus, net, bc, rx, inv, rpc, rc>>

\* the modules registered before blocks are applied: one with every hook, one
\* with the hooks of the block only, under two ids
PipelineModules ==
    [id : 1..2, hooks : {Range(HookNames), {"beforeBlockApply", "afterBlockApply"}}]

\* the lengths of the payloads applied
PayloadLengths == {0, 2}

\* the greatest number of steps of a call: two modules with every hook, a
\* payload of two
StepsAtMost == Len(_processValidatedSteps(
                      [hooks |-> [h \in Range(HookNames) |-> <<1, 2>>]], 2, FALSE))

NextPipeline ==
    \/ \E customModule \in PipelineModules : Register(customModule)
    \/ \E transactions \in PayloadLengths, skipBroadcast \in BOOLEAN,
          failAt \in 0..StepsAtMost :
            ApplyBlockSteps(transactions, skipBroadcast, failAt)

SpecPipeline == Init /\ [][NextPipeline]_vars

-----------------------------------------------------------------------------
(* Bus.registerChannel (bus.ts lines 156-202).  Names are strings, written as
   sequences of pieces, the piece ":" among them. *)

ModuleAliases == {<<"app">>, <<"app", ":", "net">>}

EventNames == {<<"ready">>, <<"net", ":", "ready">>}

ActionNames == {<<"ready">>, <<"net", ":", "ready">>}

ChannelTypes == {"inMemory", "child"}

\* `${moduleAlias}:${name}`, lines 164 and 171
Namespaced(moduleAlias, name) == moduleAlias \o <<":">> \o name

\* the test of lines 164 and 171 never finding the name
alreadyRegistered_never(object, key) == FALSE

\* this.events[key] !== undefined, this.actions[key] !== undefined
alreadyRegistered(object, key) == key \in DOMAIN object

\* object[key] = value, lines 167 and 175
Assign(b, field, key, value) ==
    [b EXCEPT ![field] = (key :> value) @@ @,
              !.reassigned = IF key \in DOMAIN b[field] THEN @ \cup {<<field, key>>} ELSE @]

\* events.forEach, lines 163-168: stops at the first name already registered
RECURSIVE registerEvents(_, _, _)
registerEvents(b, moduleAlias, eventsList) ==
    IF eventsList = <<>> THEN b
    ELSE LET key == Namespaced(moduleAlias, Head(eventsList))
         IN  IF alreadyRegistered(b.events, key)
             THEN [b EXCEPT !.err = "Event already registered with bus."]
             ELSE registerEvents(Assign(b, "events", key, TRUE), moduleAlias, Tail(eventsList))

\* Object.keys(actions).forEach, lines 170-176
RECURSIVE registerActions(_, _, _)
registerActions(b, moduleAlias, actionsList) ==
    IF actionsList = <<>> THEN b
    ELSE LET key == Namespaced(moduleAlias, Head(actionsList))
         IN  IF alreadyRegistered(b.actions, key)
             THEN [b EXCEPT !.err = "Action already registered with bus."]
             ELSE registerActions(
                     Assign(b, "actions", key,
                            [module |-> moduleAlias, name |-> Head(actionsList)]),
                     moduleAlias, Tail(actionsList))

\* a slip: a call that throws leaves nothing behind
registerChannel_rollsBack(b, moduleAlias, eventsList, actionsList, type) ==
    LET b1 == registerEvents([b EXCEPT !.err = "none"], moduleAlias, eventsList)
        b2 == IF b1.err # "none" THEN b1 ELSE registerActions(b1, moduleAlias, actionsList)
    IN  IF b2.err # "none" THEN [b EXCEPT !.err = b2.err]
        ELSE [b2 EXCEPT !.channels = (moduleAlias :> type) @@ @]

\* registerChannel: events, then actions, then the channel of the module; a
\* throw ends the call where it happens
registerChannel(b, moduleAlias, eventsList, actionsList, type) ==
    LET b1 == registerEvents([b EXCEPT !.err = "none"], moduleAlias, eventsList)
        b2 == IF b1.err # "none" THEN b1 ELSE registerActions(b1, moduleAlias, actionsList)
    IN  IF b2.err # "none" THEN b2
        ELSE [b2 EXCEPT !.channels = (moduleAlias :> type) @@ @]

\* the lists of at most n names without a name twice
DistinctSeqs(S, n) ==
    {q \in UNION {[1..k -> S] : k \in 0..n} : \A i, j \in DOMAIN q : q[i] = q[j] => i = j}

RegisterChannel(moduleAlias, eventsList, actionsList, type) ==
    /\ bus' = [registerChannel(bus, moduleAlias, eventsList, actionsList, type) EXCEPT
                  !.moduleAlias = moduleAlias,
                  !.named =
                     \/ \E i \in DOMAIN eventsList :
                           Namespaced(moduleAlias, eventsList[i]) \in DOMAIN bus.events
                     \/ \E i \in DOMAIN actionsList :
                           Namespaced(moduleAlias, actionsList[i]) \in DOMAIN bus.actions]
    /\ UNCHANGED <<nodeVars, st, pq, reg, net, bc, rx, inv, rpc, pl, rc>>

NextBus ==
    \E moduleAlias \in ModuleAliases,
       eventsList \in UNION {[1..k -> EventNames] : k \in 0..MaxEvents},
       actionsList \in DistinctSeqs(ActionNames, 1),
       type \in ChannelTypes :
        RegisterChannel(moduleAlias, eventsList, actionsList, type)

SpecBus == Init /\ [][NextBus]_vars

\* registerChannel, with the call and the bus it found kept to look back at
RegisterChannelCall(moduleAlias, eventsList, actionsList, type) ==
    /\ bus' = [registerChannel(bus, moduleAlias, eventsList, actionsList, type) EXCEPT
                  !.moduleAlias = moduleAlias,
                  !.named =
                     \/ \E i \in DOMAIN eventsList :
                           Namespaced(moduleAlias, eventsList[i]) \in DOMAIN bus.events
                     \/ \E i \in DOMAIN actionsList :
                           Namespaced(moduleAlias, actionsList[i]) \in DOMAIN bus.actions]
    /\ rc' = [eventsList |-> eventsList, actionsList |-> actionsList,
              events |-> bus.events, actions |-> bus.actions, channels |-> bus.channels]
    /\ UNCHANGED <<nodeVars, st, pq, reg, net, bc, rx, inv, rpc, pl>>

\* the lists of event names of a call: none, one, or two that may be the same
ChannelEventLists == {<<>>} \cup [{1} -> EventNames] \cup [{1, 2} -> EventNames]

NextChannel ==
    \E moduleAlias \in ModuleAliases,
       eventsList \in ChannelEventLists,
       actionsList \in DistinctSeqs(ActionNames, 1) :
        RegisterChannelCall(moduleAlias, eventsList, actionsList, "inMemory")

SpecChannel == Init /\ [][NextChannel]_vars

-----------------------------------------------------------------------------
(* Bus.invoke (bus.ts lines 204-269) and parseError (lines 59-67).  The jsonrpc
   module, Action and the channels are modelled from specification 4.10. *)

\* the code of JSONRPC.invalidRequest()
invalidRequest == -32600

\* the code of JSONRPC.internalError()
internalError == -32603

\* a request object {jsonrpc, id, method}
RequestObject(jsonrpc, id, method) ==
    [t |-> "object", jsonrpc |-> jsonrpc, id |-> id, method |-> method]

\* the arguments of invoke: undefined, a string, or an object
Undefined_ == [form |-> "undefined", text |-> "", value |-> JsonNull]

String(text) == [form |-> "string", text |-> text, value |-> JsonNull]

JSON_stringify(value) == [form |-> "string", text |-> "json", value |-> value]

Object(value) == [form |-> "object", text |-> "", value |-> value]

\* !rawRequest: undefined, null and the empty string
Falsy(rawRequest) ==
    \/ rawRequest.form = "undefined"
    \/ rawRequest.form = "string" /\ rawRequest.text = ""
    \/ rawRequest.form = "object" /\ rawRequest.value = JsonNull

\* JSON.parse of a string: the value it was made from, or a SyntaxError
JSON_parse(rawRequest) ==
    IF rawRequest.text = "json" THEN [ok |-> TRUE, value |-> rawRequest.value]
    ELSE [ok |-> FALSE, value |-> JsonNull]

\* JSONRPC.validateJSONRPCRequest: an object with jsonrpc "2.0", an id and a
\* method
validateJSONRPCRequest(request) ==
    /\ request.t = "object"
    /\ request.jsonrpc = "2.0"
    /\ request.method # <<>>

\* Action.fromJSONRPCRequest: the module of `module:name`
ActionModule(method) ==
    LET colon == CHOOSE i \in DOMAIN method :
                     method[i] = ":" /\ \A j \in 1..(i - 1) : method[j] # ":"
    IN  SubSeq(method, 1, colon - 1)

\* the call throws: a JSONRPCError with an error response, or another error
Thrown(i, error, code, id) == [i EXCEPT !.error = error, !.code = code, !.id = id]

\* parseError: a JSONRPCError is passed on; another error becomes an internal
\* error with the id of the request
parseError(i, id, err) ==
    IF err.error = "JSONRPCError" THEN Thrown(i, "JSONRPCError", err.code, err.id)
    ELSE Thrown(i, "JSONRPCError", internalError, id)

\* what the handler of an in-memory channel throws
HandlerError(behaviour, id) ==
    IF behaviour = "throwsJSONRPCError"
    THEN [error |-> "JSONRPCError", code |-> -32602, id |-> id]
    ELSE [error |-> "Error", code |-> 0, id |-> 0]

\* Bus.invoke
invoke(b, rawRequest, behaviour) ==
    LET i == [InvokeIdle EXCEPT !.rawRequest = rawRequest, !.behaviour = behaviour]
        parsed == IF rawRequest.form = "string" THEN JSON_parse(rawRequest)
                  ELSE [ok |-> TRUE, value |-> rawRequest.value]
        request == parsed.value
    IN  IF Falsy(rawRequest) THEN Thrown(i, "JSONRPCError", invalidRequest, 0)
        ELSE IF ~parsed.ok THEN Thrown(i, "JSONRPCError", invalidRequest, 0)
        ELSE IF ~validateJSONRPCRequest(request)
        THEN \* request.id, line 236: of null it is a TypeError
             IF request = JsonNull THEN Thrown(i, "TypeError", 0, 0)
             ELSE Thrown(i, "JSONRPCError", invalidRequest, request.id)
        ELSE IF request.method \notin DOMAIN b.actions
        THEN Thrown(i, "JSONRPCError", internalError, request.id)
        ELSE LET module == ActionModule(request.method)
                 called == [i EXCEPT !.invoked =
                               <<[module |-> module, actionFullName |-> request.method]>>]
             IN  IF b.channels[module] = "inMemory"
                 THEN IF behaviour = "returns"
                      THEN [called EXCEPT !.resolved = TRUE, !.id = request.id]
                      ELSE parseError(called, request.id, HandlerError(behaviour, request.id))
                 ELSE [i EXCEPT !.sent = TRUE, !.id = request.id]

\* the modules and actions of the bus under invoke
InvokeModules == {<<"app">>, <<"chain">>}

InvokeActions == {<<"getBlock">>, <<"stop">>}

\* the requests invoke is called with
RawRequests ==
    LET methods == {Namespaced(m, a) : m \in InvokeModules, a \in InvokeActions}
        valid == {RequestObject("2.0", 1, method) : method \in methods}
        invalid == {RequestObject("1.0", 1, Namespaced(<<"app">>, <<"getBlock">>)),
                    RequestObject("2.0", 1, <<>>)}
    IN  {Undefined_, String(""), String("{"), Object(JsonNull), JSON_stringify(JsonNull)}
        \cup {Object(v) : v \in valid \cup invalid}
        \cup {JSON_stringify(v) : v \in valid \cup invalid}

HandlerBehaviours == {"returns", "throwsError", "throwsJSONRPCError"}

Invoke(rawRequest, behaviour) ==
    /\ inv' = invoke(bus, rawRequest, behaviour)
    /\ UNCHANGED <<nodeVars, st, pq, reg, bus, net, bc, rx, rpc, pl, rc>>

NextInvoke ==
    \/ \E moduleAlias \in InvokeModules, actionsList \in DistinctSeqs(InvokeActions, 1),
          type \in ChannelTypes :
            RegisterChannel(moduleAlias, <<>>, actionsList, type)
    \/ \E rawRequest \in RawRequests, behaviour \in HandlerBehaviours :
            Invoke(rawRequest, behaviour)

SpecInvoke == Init /\ [][NextInvoke]_vars

-----------------------------------------------------------------------------
(* Bus.invoke, the branch of a child process (bus.ts lines 271-287), and
   Bus._listenToRPCResponse (lines 131-138).  Each callback runs to its end
   before the next one starts. *)

RpcUnchanged == UNCHANGED <<nodeVars, st, pq, reg, bus, net, bc, rx, inv, pl, rc>>

\* lines 271-273: the id becomes pending and the request is handed to the
\* dealer; ids are used once
InvokeChild(id) ==
    /\ id \notin rpc._rpcRequestIds \cup rpc.failed
    /\ rpc.resolved[id] = 0
    /\ rpc' = [rpc EXCEPT !._rpcRequestIds = @ \cup {id}, !.sending = @ \cup {id}]
    /\ RpcUnchanged

\* lines 274-282, the send resolved: the once-listener of the id is registered
SendResolved(id) ==
    /\ id \in rpc.sending
    /\ rpc' = [rpc EXCEPT !.sending = @ \ {id}, !.listeners = @ \cup {id}]
    /\ RpcUnchanged

\* lines 283-285, the send rejected: the error is logged
SendRejected(id) ==
    /\ id \in rpc.sending
    /\ rpc' = [rpc EXCEPT !.sending = @ \ {id}, !.failed = @ \cup {id}]
    /\ RpcUnchanged

\* a slip: the listener resolves the promise and leaves the id pending
_listenToRPCResponse_keepsId(r, requestId) ==
    IF requestId \notin r._rpcRequestIds THEN [r EXCEPT !.dropped = @ \cup {requestId}]
    ELSE IF requestId \in r.listeners
    THEN [r EXCEPT !.listeners = @ \ {requestId},
                   !.resolved[requestId] = requestId,
                   !.arrived = @ \cup {requestId}]
    ELSE [r EXCEPT !.arrived = @ \cup {requestId}]

\* one turn of the loop of _listenToRPCResponse, lines 132-137: a response
\* whose id is pending is emitted under its id, and the once-listener of that
\* id, lines 278-281, removes the id and resolves the promise; without a
\* listener the emit reaches nobody
_listenToRPCResponse(r, requestId) ==
    IF requestId \notin r._rpcRequestIds THEN [r EXCEPT !.dropped = @ \cup {requestId}]
    ELSE IF requestId \in r.listeners
    THEN [r EXCEPT !.listeners = @ \ {requestId},
                   !._rpcRequestIds = @ \ {requestId},
                   !.resolved[requestId] = requestId,
                   !.arrived = @ \cup {requestId}]
    ELSE [r EXCEPT !.arrived = @ \cup {requestId}]

\* a response frame arrives on the dealer
Response(requestId) ==
    /\ rpc' = _listenToRPCResponse(rpc, requestId)
    /\ RpcUnchanged

NextRpc ==
    \/ \E id \in 1..MaxInvokes : InvokeChild(id)
    \/ \E id \in 1..MaxInvokes : SendResolved(id)
    \/ \E id \in 1..MaxInvokes : SendRejected(id)
    \/ \E requestId \in 1..MaxInvokes : Response(requestId)

\* the dealer settles every send
SpecRpc ==
    /\ Init
    /\ [][NextRpc]_vars
    /\ \A id \in 1..MaxInvokes : WF_vars(SendResolved(id) \/ SendRejected(id))

-----------------------------------------------------------------------------
(* Transport: the rate limit of handleRPCGetTransactions and
   handleEventPostTransactionsAnnouncement (specification 4.9; the tests of
   part_000 lines 328-348 and 525-554) *)

\* the window of the rate limit, in milliseconds
DEFAULT_RATE_RESET_TIME == 10000

\* the calls a peer may make of one handler inside the window
DEFAULT_RATE_LIMIT_FREQUENCY == 3

\* the penalty of a call over the limit
RATE_LIMIT_PENALTY == 10

\* the penalty of a request that fails its schema
INVALID_REQUEST_PENALTY == 100

\* the time the clock steps by
TickLength == 5000

\* the calls of the window that are less than DEFAULT_RATE_RESET_TIME old
SlideWindow(times, clock) ==
    SelectSeq(times, LAMBDA t : t > clock - DEFAULT_RATE_RESET_TIME)

\* the limit counted over every peer's calls of the handler
OverLimit_anyPeer(n, peerId, handler) ==
    LET others == {k \in DOMAIN n.window : k[2] = handler}
        RECURSIVE Total(_)
        Total(K) == IF K = {} THEN 0
                    ELSE LET k == CHOOSE x \in K : TRUE
                         IN  Len(SlideWindow(n.window[k], n.clock)) + Total(K \ {k})
    IN  Total(others) > DEFAULT_RATE_LIMIT_FREQUENCY

\* more than the limit of calls of this handler by this peer inside the
\* window, the call being handled among them
OverLimit(n, peerId, handler) ==
    Len(SlideWindow(n.window[<<peerId, handler>>], n.clock)) > DEFAULT_RATE_LIMIT_FREQUENCY

\* a rate-limited handler: the call is entered in the window of its peer and
\* handler; over the limit it applies penalty 10; an announcement that fails
\* its schema applies penalty 100
handle(n, peerId, handler, valid) ==
    LET key == <<peerId, handler>>
        n1 == [n EXCEPT !.window[key] = Append(SlideWindow(@, n.clock), n.clock)]
        penalties ==
            (IF OverLimit(n1, peerId, handler)
             THEN {[peerId |-> peerId, penalty |-> RATE_LIMIT_PENALTY]} ELSE {})
            \cup (IF valid THEN {}
                  ELSE {[peerId |-> peerId, penalty |-> INVALID_REQUEST_PENALTY]})
    IN  [n1 EXCEPT !.calls = Append(@, [time |-> n.clock, peerId |-> peerId,
                                        handler |-> handler, penalties |-> penalties])]

Handle(peerId, handler, valid) ==
    /\ Len(net.calls) < MaxRequests
    /\ handler = "handleRPCGetTransactions" => valid
    /\ net' = handle(net, peerId, handler, valid)
    /\ UNCHANGED <<nodeVars, st, pq, reg, bus, bc, rx, inv, rpc, pl, rc>>

\* time passes
Tick ==
    /\ net.clock < MaxTicks * TickLength
    /\ net' = [net EXCEPT !.clock = @ + TickLength]
    /\ UNCHANGED <<nodeVars, st, pq, reg, bus, bc, rx, inv, rpc, pl, rc>>

NextTransport ==
    \/ \E peerId \in TransportPeers, handler \in RateLimitedHandlers, valid \in BOOLEAN :
            Handle(peerId, handler, valid)
    \/ Tick

SpecTransport == Init /\ [][NextTransport]_vars

-----------------------------------------------------------------------------
(* Transport's broadcaster (specification 4.8, 4.9; the tests of part_000
   lines 93-251) *)

\* broadcasts.releaseLimit of the transport under test
defaultReleaseLimit == 25

\* the first n elements of a sequence, all of it when it is shorter
Take(q, n) == SubSeq(q, 1, IF Len(q) < n THEN Len(q) ELSE n)

Drop(q, n) == SubSeq(q, (IF Len(q) < n THEN Len(q) ELSE n) + 1, Len(q))

\* transactionPool.transactionInPool(id)
transactionInPool(b, id) == id \notin b.evicted

\* the queue taking an id whether or not it holds it
enqueueTransactionId_always(b, id) ==
    [b EXCEPT !.transactionIdQueue = Append(@, id), !.accepted = Append(@, id)]

\* broadcaster.enqueueTransactionId: an id in the queue is not queued again
enqueueTransactionId(b, id) ==
    IF id \in Range(b.transactionIdQueue) THEN b
    ELSE [b EXCEPT !.transactionIdQueue = Append(@, id), !.accepted = Append(@, id)]

\* a tick that publishes the ids it released without asking the pool
broadcast_unfiltered(b) ==
    LET ids == Take(b.transactionIdQueue, defaultReleaseLimit)
    IN  [b EXCEPT !.transactionIdQueue = Drop(@, defaultReleaseLimit),
                  !.released = @ \o ids,
                  !.announcements = IF ids = <<>> THEN @ ELSE Append(@, ids)]

\* a tick that releases the whole queue
broadcast_unlimited(b) ==
    LET ids == b.transactionIdQueue
        inPool == SelectSeq(ids, LAMBDA id : transactionInPool(b, id))
    IN  [b EXCEPT !.transactionIdQueue = <<>>,
                  !.released = @ \o ids,
                  !.announcements = IF inPool = <<>> THEN @ ELSE Append(@, inPool)]

\* the broadcast interval tick: the first releaseLimit ids leave the queue, and
\* those still in the pool are published as one postTransactionsAnnouncement
broadcast(b) ==
    LET ids == Take(b.transactionIdQueue, defaultReleaseLimit)
        inPool == SelectSeq(ids, LAMBDA id : transactionInPool(b, id))
    IN  [b EXCEPT !.transactionIdQueue = Drop(@, defaultReleaseLimit),
                  !.released = @ \o ids,
                  !.announcements = IF inPool = <<>> THEN @ ELSE Append(@, inPool)]

\* the queue lengths at which an interval tick is observed: below, at and above
\* the release limit, and at twice the limit
TickLengths ==
    {1, 2, defaultReleaseLimit - 1, defaultReleaseLimit, defaultReleaseLimit + 1,
     2 * defaultReleaseLimit, MaxTransactions}

\* the transactions that may leave the pool: the second one handed over
Evictable == {2}

\* handleBroadcastTransaction(tx): a transaction not seen before, or the latest
\* once more
HandleBroadcastTransaction(id) ==
    /\ id \in {bc.made, bc.made + 1} \cap 1..MaxTransactions
    /\ bc' = [enqueueTransactionId(bc, id) EXCEPT !.id = id, !.made = id,
                 !.again = (id = bc.made)]
    /\ UNCHANGED <<nodeVars, st, pq, reg, bus, net, rx, inv, rpc, pl, rc>>

BroadcastTick ==
    /\ bc.ticks < MaxReleases
    /\ Len(bc.transactionIdQueue) \in TickLengths
    /\ bc' = [broadcast(bc) EXCEPT !.ticks = @ + 1]
    /\ UNCHANGED <<nodeVars, st, pq, reg, bus, net, rx, inv, rpc, pl, rc>>

\* a transaction leaves the pool: it was included in a block, or it expired
Evict(id) ==
    /\ id \in Evictable \cap 1..bc.made
    /\ id \notin bc.evicted
    /\ bc' = [bc EXCEPT !.evicted = @ \cup {id}]
    /\ UNCHANGED <<nodeVars, st, pq, reg, bus, net, rx, inv, rpc, pl, rc>>

NextBroadcaster ==
    \/ \E id \in 1..MaxTransactions : HandleBroadcastTransaction(id)
    \/ BroadcastTick
    \/ \E id \in 1..MaxTransactions : Evict(id)

SpecBroadcaster == Init /\ [][NextBroadcaster]_vars

-----------------------------------------------------------------------------
(* Transport's handlers of peer requests and events (specification 4.9; the
   tests of part_000 lines 252-720).  The calls are inside the rate limit. *)

\* the most ids one getTransactions request may name
MAX_GET_TX == 25

\* data that names ids and passes the schema of its handler
Request(ids) == [schema |-> "valid", ids |-> ids]

\* data that fails the schema of its handler
SchemaFailing == [schema |-> "invalid", ids |-> <<>>]

\* a request without transactionIds
Undefined == [schema |-> "empty", ids |-> <<>>]

\* null, where a block id is expected
NoBlock == 0

\* the ids 1..n in order
FirstIds(n) == [i \in 1..n |-> i]

\* dataAccess: the transactions of the database
StoredTxIds == {2}

\* the blocks of the chain
ChainBlockIds == {8, 9}

\* the sequences over S of at most n elements
RECURSIVE SeqsUpTo(_, _)
SeqsUpTo(S, n) ==
    IF n = 0 THEN {<<>>}
    ELSE LET shorter == SeqsUpTo(S, n - 1)
         IN  shorter \cup {Append(q, x) : q \in shorter, x \in S}

\* a transaction as a peer sends it, and as the node reads it
serializeTransaction(id) == <<"tx", id>>

deserializeTransaction(raw) ==
    [id |-> raw[2], valid |-> raw[2] # 4, insertable |-> raw[2] # 5]

\* a call begins: the record of the last call is cleared
Called(r, handler, data, peerId) ==
    [PeerIdle EXCEPT !.pool = r.pool, !.poolBefore = r.pool, !.handler = handler,
                     !.data = data, !.peerId = peerId]

applyPenaltyOnPeer(r, peerId, penalty) ==
    [r EXCEPT !.penalties = Append(@, [peerId |-> peerId, penalty |-> penalty])]

\* handleRPCGetGetHighestCommonBlock: data failing the schema is penalized and
\* rejected; otherwise the first of the ids that is in the chain, or null
handleRPCGetGetHighestCommonBlock(r, data, peerId) ==
    LET c == Called(r, "handleRPCGetGetHighestCommonBlock", data, peerId)
        common == SelectSeq(data.ids, LAMBDA id : id \in ChainBlockIds)
    IN  IF data = SchemaFailing
        THEN [applyPenaltyOnPeer(c, peerId, INVALID_REQUEST_PENALTY) EXCEPT
                 !.rejected = "should have required property"]
        ELSE [c EXCEPT !.returned = IF common = <<>> THEN <<NoBlock>> ELSE <<Head(common)>>]

\* getTransactions that answers a request of any length
handleRPCGetTransactions_anyLength(r, data, peerId) ==
    LET c == Called(r, "handleRPCGetTransactions", data, peerId)
        fromPool == SelectSeq(data.ids, LAMBDA id : id \in r.pool)
        fromDb == SelectSeq(data.ids, LAMBDA id : id \notin r.pool /\ id \in StoredTxIds)
    IN  IF data = Undefined
        THEN [c EXCEPT !.returned = SelectSeq(FirstIds(5), LAMBDA id : id \in r.pool)]
        ELSE [c EXCEPT !.returned = fromPool \o fromDb]

\* handleRPCGetTransactions: without transactionIds the transactions of the
\* pool; with more than MAX_GET_TX ids penalty 100 and a rejection; otherwise
\* the transactions found in the pool, then those found in the database
handleRPCGetTransactions(r, data, peerId) ==
    LET c == Called(r, "handleRPCGetTransactions", data, peerId)
        fromPool == SelectSeq(data.ids, LAMBDA id : id \in r.pool)
        fromDb == SelectSeq(data.ids, LAMBDA id : id \notin r.pool /\ id \in StoredTxIds)
    IN  IF data = Undefined
        THEN [c EXCEPT !.returned = SelectSeq(FirstIds(5), LAMBDA id : id \in r.pool)]
        ELSE IF Len(data.ids) > MAX_GET_TX
        THEN [applyPenaltyOnPeer(c, peerId, INVALID_REQUEST_PENALTY) EXCEPT
                 !.rejected = "Received invalid request"]
        ELSE [c EXCEPT !.returned = fromPool \o fromDb]

\* the unknown ids taken to be those the pool does not hold
_obtainUnknownTransactionIDs_poolOnly(r, ids) ==
    SelectSeq(ids, LAMBDA id : id \notin r.pool)

\* the announced ids that are neither in the pool nor in the database
_obtainUnknownTransactionIDs(r, ids) ==
    SelectSeq(ids, LAMBDA id : id \notin r.pool /\ id \notin StoredTxIds)

\* a received transaction whose every failure is penalized
_receiveTransaction_penalizeAny(r, raw, peerId) ==
    LET tx == deserializeTransaction(raw)
        r1 == [r EXCEPT !.received = Append(@, tx.id), !.validated = Append(@, tx.id)]
    IN  IF ~tx.valid \/ ~tx.insertable \/ tx.id \in r.pool
        THEN applyPenaltyOnPeer(r1, peerId, INVALID_REQUEST_PENALTY)
        ELSE [r1 EXCEPT !.pool = @ \cup {tx.id}, !.inserted = Append(@, tx.id)]

\* a received transaction: deserializeTransaction, validateTransactions, then
\* processUnconfirmedTransaction.  Failing validation is penalized with 100;
\* being turned down by the pool is not
_receiveTransaction(r, raw, peerId) ==
    LET tx == deserializeTransaction(raw)
        r1 == [r EXCEPT !.received = Append(@, tx.id), !.validated = Append(@, tx.id)]
    IN  IF ~tx.valid THEN applyPenaltyOnPeer(r1, peerId, INVALID_REQUEST_PENALTY)
        ELSE IF ~tx.insertable \/ tx.id \in r.pool THEN r1
        ELSE [r1 EXCEPT !.pool = @ \cup {tx.id}, !.inserted = Append(@, tx.id)]

RECURSIVE _receiveTransactions(_, _, _)
_receiveTransactions(r, raws, peerId) ==
    IF raws = <<>> THEN r
    ELSE _receiveTransactions(_receiveTransaction(r, Head(raws), peerId), Tail(raws), peerId)

\* handleEventPostTransactionsAnnouncement: data failing the schema is
\* penalized and rejected; otherwise the unknown ids, if any, are requested
\* from the announcing peer and the transactions it answers with are received
handleEventPostTransactionsAnnouncement(r, data, peerId, response) ==
    LET c == Called(r, "handleEventPostTransactionsAnnouncement", data, peerId)
        unknown == _obtainUnknownTransactionIDs(r, data.ids)
        asked == [c EXCEPT !.requested =
                     <<[procedure |-> "getTransactions", transactionIds |-> unknown,
                        peerId |-> peerId]>>,
                           !.response = response]
    IN  IF data = SchemaFailing
        THEN [applyPenaltyOnPeer(c, peerId, INVALID_REQUEST_PENALTY) EXCEPT
                 !.rejected = "should have required property"]
        ELSE IF unknown = <<>> THEN c
        ELSE _receiveTransactions(asked, response, peerId)

\* the requests peers make
GetTransactionsRequests ==
    {Undefined}
    \cup {Request(FirstIds(n)) : n \in {1, 2, MAX_GET_TX, MAX_GET_TX + 1, MAX_GET_TX + 5}}

HighestCommonBlockRequests ==
    {SchemaFailing} \cup {Request(ids) : ids \in SeqsUpTo({7, 8, 9}, 2) \ {<<>>}}

Announcements ==
    {SchemaFailing} \cup {Request(ids) : ids \in SeqsUpTo(1..4, 2) \ {<<>>}}

\* what a peer answers a getTransactions request with
Responses == {[i \in DOMAIN q |-> serializeTransaction(q[i])] : q \in SeqsUpTo(3..5, 2)}

PeerUnchanged == UNCHANGED <<nodeVars, st, pq, reg, bus, net, bc, inv, rpc, pl, rc>>

HandleRPCGetGetHighestCommonBlock(data, peerId) ==
    /\ rx' = handleRPCGetGetHighestCommonBlock(rx, data, peerId)
    /\ PeerUnchanged

HandleRPCGetTransactions(data, peerId) ==
    /\ rx' = handleRPCGetTransactions(rx, data, peerId)
    /\ PeerUnchanged

HandleEventPostTransactionsAnnouncement(data, peerId, response) ==
    /\ rx' = handleEventPostTransactionsAnnouncement(rx, data, peerId, response)
    /\ PeerUnchanged

\* a transaction received from a peer is forged into a block or expires
PoolDrop(id) ==
    /\ id \in rx.pool \ PeerIdle.pool
    /\ rx' = [rx EXCEPT !.pool = @ \ {id}]
    /\ PeerUnchanged

NextPeer ==
    \/ \E data \in HighestCommonBlockRequests, peerId \in TransportPeers :
            HandleRPCGetGetHighestCommonBlock(data, peerId)
    \/ \E data \in GetTransactionsRequests, peerId \in TransportPeers :
            HandleRPCGetTransactions(data, peerId)
    \/ \E data \in Announcements, peerId \in TransportPeers, response \in Responses :
            HandleEventPostTransactionsAnnouncement(data, peerId, response)
    \/ \E id \in PeerTxIds : PoolDrop(id)

SpecPeer == Init /\ [][NextPeer]_vars

-----------------------------------------------------------------------------
(* What a job did, read from its record *)

Removed(j) == {j.log[i].block : i \in {n \in 1..Len(j.log) : j.log[n].name = "chain:removeBlock"}}

Saved(j) == {j.log[i].block : i \in {n \in 1..Len(j.log) : j.log[n].name = "chain:saveBlock"}}

Events(j, name) == SelectSeq(j.log, LAMBDA e : e.name = name)

Unchanged(j) == db = j.pre.db /\ lastBlock = j.pre.lastBlock

-----------------------------------------------------------------------------
(* C1: a block at or below the BFT finalized height is never deleted:
   deleteLastBlock, and the tip deletion of a TIE_BREAK job, end with an error
   when tip.height <= finalizedHeight and leave the tip and the whole store as
   they were; whenever a job removed a block, that block was above the
   finalized height. *)
C1_FinalizedNeverDeleted ==
    /\ (job.op = "deleteLastBlock"
            /\ job.pre.lastBlock.header.height <= job.pre.finalizedHeight)
        => (job.err # "none" /\ Unchanged(job))
    /\ (job.op = "process" /\ job.status = TIE_BREAK
            /\ job.pre.lastBlock.header.height <= job.pre.finalizedHeight)
        => (job.err # "none" /\ Unchanged(job))
    /\ Removed(job) # {}
        => (/\ Removed(job) = {job.pre.lastBlock.header.id}
            /\ job.pre.lastBlock.header.height > job.pre.finalizedHeight)

\* a TIE_BREAK block that passes validation arrives while the tip, above the
\* genesis block, sits exactly at the finalized height
C1_Witness ==
    /\ job.op = "process" /\ job.status = TIE_BREAK
    /\ _validate(job.block) = "none"
    /\ job.pre.lastBlock.header.height = job.pre.finalizedHeight
    /\ job.pre.lastBlock.header.height > 0
    /\ job.err = "Can not delete block below or same as finalized height"

-----------------------------------------------------------------------------
(* Ground truth about blocks, independent of the store *)

\* the block of the universe with this id
BlockOfId(id) == CHOOSE b \in Blocks \cup {GenesisBlock} : b.header.id = id

RECURSIVE AncestorAt(_, _)
AncestorAt(block, height) ==
    IF block.header.height = height THEN block
    ELSE AncestorAt(BlockOfId(block.header.previousBlockID), height)

RawOf(block) ==
    [header |-> encodeBlockHeader(block.header),
     payload |-> [i \in 1..Len(block.payload) |-> encodeTransaction(block.payload[i])]]

\* the stored blocks and state: headers, height index, transactions,
\* block-to-transaction ids, accounts and chain state
BlockAndStatePrefixes ==
    {DB_KEY_BLOCKS_ID, DB_KEY_BLOCKS_HEIGHT, DB_KEY_TRANSACTIONS_ID,
     DB_KEY_TRANSACTIONS_BLOCK_ID, DB_KEY_ACCOUNTS, DB_KEY_CHAIN_STATE}

BlocksAndState(d) == [k \in {x \in DOMAIN d : x[1] \in BlockAndStatePrefixes} |-> d[k]]

StateOf(d) == [k \in {x \in DOMAIN d : x \in StateKeys} |-> d[k]]

-----------------------------------------------------------------------------
(* Storage on its own: saveBlock step by step with a reader in between, and
   deleteBlock.  The caller saves the block that continues the last one, with a
   finalized height that never decreases and never exceeds the block's height,
   it deletes the last block, whatever its height, with a fresh state store,
   and a block saved at a height that has a temporary block may take that
   one's place. *)

\* what a transition did to the state store before the block is saved
Updates ==
    { << [op |-> "set", key |-> <<DB_KEY_ACCOUNTS, 1>>],
         [op |-> "del", key |-> <<DB_KEY_ACCOUNTS, 2>>],
         [op |-> "set", key |-> <<DB_KEY_CHAIN_STATE, 1>>] >>,
      << [op |-> "set", key |-> <<DB_KEY_ACCOUNTS, 2>>],
         [op |-> "set", key |-> <<DB_KEY_ACCOUNTS, 1>>],
         [op |-> "del", key |-> <<DB_KEY_ACCOUNTS, 1>>] >>,
      << [op |-> "del", key |-> <<DB_KEY_CHAIN_STATE, 1>>],
         [op |-> "set", key |-> <<DB_KEY_ACCOUNTS, 2>>] >> }

RECURSIVE ApplyUpdates(_, _, _, _)
ApplyUpdates(ss, d, updates, v) ==
    IF updates = <<>> THEN ss
    ELSE ApplyUpdates(IF Head(updates).op = "set"
                      THEN ssSet(ss, d, Head(updates).key, v)
                      ELSE ssDel(ss, d, Head(updates).key),
                      d, Tail(updates), v)

Restrict(d, keys) == [k \in (DOMAIN d) \cap keys |-> d[k]]

\* the entries of the store a saveBlock of this block with this state store is about
SavedKeys(block, stateStore) ==
    {concatDBKeys(DB_KEY_BLOCKS_ID, block.header.id),
     concatDBKeys(DB_KEY_BLOCKS_HEIGHT, block.header.height),
     concatDBKeys(DB_KEY_DIFF_STATE, block.header.height),
     FinalizedHeightKey}
    \cup {concatDBKeys(DB_KEY_TRANSACTIONS_ID, block.payload[i].id) : i \in 1..Len(block.payload)}
    \cup (IF Len(block.payload) > 0
          THEN {concatDBKeys(DB_KEY_TRANSACTIONS_BLOCK_ID, block.header.id)} ELSE {})
    \cup DOMAIN stateStore.data

StorageIsEmpty == getLastBlock(db).err # "none"

StorageLastBlock == decodeRawBlock(getLastBlock(db).value)

PersistedFinalizedHeight == IF Exists(db, FinalizedHeightKey) THEN getFinalizedHeight(db) ELSE 0

\* saveBlock is called: lines 309-329 queue the batch, nothing is written yet
StSaveBlock(block, updates, finalized, removeFromTemp) ==
    /\ st.pc = "idle"
    /\ IF StorageIsEmpty THEN block = GenesisBlock
       ELSE /\ block \in Blocks /\ Applicable(block)
            /\ block.header.previousBlockID = StorageLastBlock.header.id
            /\ block.header.height = StorageLastBlock.header.height + 1
    /\ finalized \in {PersistedFinalizedHeight,
                      Max(PersistedFinalizedHeight, block.header.height - 1)}
    /\ finalized <= block.header.height
    /\ removeFromTemp
         => Exists(db, concatDBKeys(DB_KEY_TEMPBLOCKS_HEIGHT, block.header.height))
    /\ LET stateStore == ApplyUpdates(NewStateStore, db, updates, block.header.height + 1)
           id == block.header.id
           height == block.header.height
           header == encodeBlockHeader(block.header)
           payload == EncodedPayload(block)
       IN  st' = [st EXCEPT
                    !.pc = "saving", !.op = "saveBlock", !.err = "none",
                    !.block = block, !.finalized = finalized, !.temp = removeFromTemp,
                    !.pending = saveBlockWrites(id, height, finalized, header, payload,
                                                stateStore, removeFromTemp),
                    !.written = 0,
                    !.pre = db,
                    !.post = BatchWrite(db, saveBlockBatch(id, height, finalized, header,
                                                           payload, stateStore, removeFromTemp)),
                    !.keys = SavedKeys(block, stateStore)]
    /\ UNCHANGED <<db, lastBlock, finalizedHeight, initialized, job, undo, aux>>

\* line 331: batch.write()
StBatchWrite ==
    /\ st.pc = "saving" /\ st.pending # <<>>
    /\ db' = BatchWrite(db, Head(st.pending))
    /\ st' = [st EXCEPT !.pending = Tail(st.pending), !.written = st.written + 1]
    /\ UNCHANGED <<lastBlock, finalizedHeight, initialized, job, undo, aux>>

\* saveBlock fails before the batch is written: the batch is dropped
StSaveThrow ==
    /\ st.pc = "saving" /\ st.written = 0
    /\ st' = [st EXCEPT !.pc = "failed", !.err = "Error", !.pending = <<>>]
    /\ UNCHANGED <<db, lastBlock, finalizedHeight, initialized, job, undo, aux>>

\* line 332: _cleanUntil(finalizedHeight), and saveBlock returns
StCleanUntil ==
    /\ st.pc = "saving" /\ st.pending = <<>>
    /\ db' = _cleanUntil(db, st.finalized)
    /\ st' = [st EXCEPT !.pc = "saved"]
    /\ UNCHANGED <<lastBlock, finalizedHeight, initialized, job, undo, aux>>

\* line 332: the clear of _cleanUntil rejects, and so does saveBlock, with the
\* batch of line 331 written
StCleanThrow ==
    /\ st.pc = "saving" /\ st.pending = <<>>
    /\ st' = [st EXCEPT !.pc = "failed", !.err = "Error"]
    /\ UNCHANGED <<db, lastBlock, finalizedHeight, initialized, job, undo, aux>>

\* a reader, at any point of the saveBlock in flight, reads the entries it is about
StRead ==
    /\ st.pc = "saving"
    /\ st.seen # [taken |-> TRUE, view |-> Restrict(db, st.keys)]
    /\ st' = [st EXCEPT !.seen = [taken |-> TRUE, view |-> Restrict(db, st.keys)]]
    /\ UNCHANGED <<db, lastBlock, finalizedHeight, initialized, job, undo, aux>>

\* deleteBlock of the last block, lines 335-391, by a caller that has compared
\* its height with the finalized height or by one that has not
StDeleteBlock(saveToTemp) ==
    /\ st.pc \in {"idle", "saved"}
    /\ ~StorageIsEmpty
    /\ LET block == StorageLastBlock
           deleted == deleteBlock(db, block.header.id, block.header.height,
                                  [i \in 1..Len(block.payload) |-> block.payload[i].id],
                                  encodeBlock(block), NewStateStore, saveToTemp)
       IN  /\ db' = deleted.db
           /\ st' = [StorageIdle EXCEPT
                        !.pc = "deleted", !.op = "deleteBlock", !.err = deleted.err,
                        !.block = block, !.pre = db, !.temp = saveToTemp,
                        !.follows = st.pc = "saved" /\ st.block = block,
                        !.before = IF st.pc = "saved" THEN StateOf(st.pre) ELSE <<>>]
    /\ UNCHANGED <<lastBlock, finalizedHeight, initialized, job, undo, aux>>

\* clearTempBlocks, lines 249-254
StClearTempBlocks ==
    /\ st.pc = "idle"
    /\ db' = clearTempBlocks(db)
    /\ st' = [StorageIdle EXCEPT !.pc = "cleared", !.op = "clearTempBlocks", !.pre = db]
    /\ UNCHANGED <<lastBlock, finalizedHeight, initialized, job, undo, aux>>

\* the caller has its answer; nothing of the call is kept
StSettle ==
    /\ st.pc \in {"saved", "deleted", "failed", "cleared"}
    /\ st' = StorageIdle
    /\ UNCHANGED <<db, lastBlock, finalizedHeight, initialized, job, undo, aux>>

\* The caller is the chain under the Processor: a block saved at a height that
\* has a temporary block takes that one's place, the clearing does not fail,
\* and a block is deleted only above the finalized height, as
\* Processor._deleteBlock has checked.
NextStorage ==
    \/ \E block \in Blocks \cup {GenesisBlock}, updates \in Updates,
          finalized \in 0..MaxHeight, removeFromTemp \in BOOLEAN :
            /\ removeFromTemp
                 = Exists(db, concatDBKeys(DB_KEY_TEMPBLOCKS_HEIGHT, block.header.height))
            /\ StSaveBlock(block, updates, finalized, removeFromTemp)
    \/ StBatchWrite
    \/ StSaveThrow
    \/ StCleanUntil
    \/ StRead
    \/ \E saveToTemp \in BOOLEAN :
            /\ ~StorageIsEmpty
            /\ StorageLastBlock.header.height > PersistedFinalizedHeight
            /\ saveToTemp => (st.pc = "saved" /\ isTempBlockEmpty(db))
            /\ StDeleteBlock(saveToTemp)
    \/ StSettle

SpecStorage == Init /\ [][NextStorage]_vars

\* Any caller: the clearing may fail, a block may be saved next to the
\* temporary block of its height, the last block is deleted whatever its
\* height, and the table of temporary blocks is cleared.
NextStorageCalls ==
    \/ \E block \in Blocks \cup {GenesisBlock}, updates \in {u \in Updates : Len(u) = 2},
          finalized \in 0..MaxHeight, removeFromTemp \in BOOLEAN :
            StSaveBlock(block, updates, finalized, removeFromTemp)
    \/ StBatchWrite
    \/ StSaveThrow
    \/ StCleanUntil
    \/ StCleanThrow
    \/ \E saveToTemp \in BOOLEAN : StDeleteBlock(saveToTemp)
    \/ StClearTempBlocks
    \/ StSettle

SpecStorageCalls == Init /\ [][NextStorageCalls]_vars

-----------------------------------------------------------------------------
(* C2: a deleteBlock of a block B that follows the saveBlock of B at height H
   with a state store holding created, updated and deleted keys does not fail,
   puts every account and chain-state key back to its value before the save
   (created keys absent, updated and deleted keys at their pre-image), and
   removes B's header, height index, transaction entries and DIFF_STATE[H]. *)
C2_SaveDeleteRoundTrip ==
    st.op = "deleteBlock" =>
        /\ st.follows => st.err = "none"
        /\ (st.follows /\ st.err = "none") =>
            LET B == st.block
            IN  /\ StateOf(db) = st.before
                /\ ~Exists(db, concatDBKeys(DB_KEY_BLOCKS_ID, B.header.id))
                /\ ~Exists(db, concatDBKeys(DB_KEY_BLOCKS_HEIGHT, B.header.height))
                /\ \A i \in 1..Len(B.payload) :
                        ~Exists(db, concatDBKeys(DB_KEY_TRANSACTIONS_ID, B.payload[i].id))
                /\ ~Exists(db, concatDBKeys(DB_KEY_TRANSACTIONS_BLOCK_ID, B.header.id))
                /\ ~Exists(db, concatDBKeys(DB_KEY_DIFF_STATE, B.header.height))

\* the deleted block had transactions, and its save had created, updated and
\* deleted state keys
C2_Witness ==
    /\ st.op = "deleteBlock" /\ st.err = "none" /\ st.follows
    /\ Len(st.block.payload) = 2
    /\ LET diff == decodeDiff(st.pre[concatDBKeys(DB_KEY_DIFF_STATE, st.block.header.height)])
       IN  Len(diff.created) > 0 /\ Len(diff.updated) > 0 /\ Len(diff.deleted) > 0
    /\ StateOf(st.pre) # StateOf(db)

-----------------------------------------------------------------------------
(* C5: saveBlock is atomic: whoever reads the store while a saveBlock of B is
   in flight, or after it, finds of B's header, height index, transaction
   entries, block-to-transaction ids, DIFF_STATE[height], FINALIZED_HEIGHT and
   state mutations either what was there before the call or all that the
   batch holds; after a saveBlock that failed before the write, the store is as
   before the call; after one that returned, all of it is there. *)
NoneOrAll(view) == view \in {Restrict(st.pre, st.keys), Restrict(st.post, st.keys)}

C5_SaveBlockAtomic ==
    st.op = "saveBlock" =>
        /\ NoneOrAll(Restrict(db, st.keys))
        /\ st.seen.taken => NoneOrAll(st.seen.view)
        /\ (st.err # "none" /\ st.written = 0) => db = st.pre
        /\ st.pc = "saved" =>
            /\ Restrict(db, st.keys) = Restrict(st.post, st.keys)
            /\ db[concatDBKeys(DB_KEY_BLOCKS_ID, st.block.header.id)]
                 = encodeBlockHeader(st.block.header)
            /\ db[concatDBKeys(DB_KEY_BLOCKS_HEIGHT, st.block.header.height)]
                 = st.block.header.id
            /\ db[FinalizedHeightKey] = st.finalized
            /\ Exists(db, concatDBKeys(DB_KEY_DIFF_STATE, st.block.header.height))
            /\ \A i \in 1..Len(st.block.payload) :
                 db[concatDBKeys(DB_KEY_TRANSACTIONS_ID, st.block.payload[i].id)]
                    = encodeTransaction(st.block.payload[i])

\* a reader read all of the block, transactions and state mutations included,
\* after the write and before saveBlock returned
C5_Witness ==
    /\ st.op = "saveBlock" /\ st.pc = "saving"
    /\ st.seen.taken
    /\ st.seen.view = Restrict(st.post, st.keys)
    /\ st.seen.view # Restrict(st.pre, st.keys)
    /\ Len(st.block.payload) = 2
    /\ st.keys \cap StateKeys # {}

-----------------------------------------------------------------------------
(* C3: deleting a tip block B above the finalized height and then applying B
   again leaves blocks, indexes, transactions, state keys and the DIFF_STATE
   entry of B's height as they were before the delete. *)
\* the job after the delete ran the application pipeline on the deleted block:
\* processValidated, or process with a block that passes _validate and that
\* fork choice answers VALID_BLOCK for
Reapplied ==
    /\ undo.valid /\ undo.reapplied /\ job.block = undo.block
    /\ job.op = "process" => _validate(job.block) = "none" /\ job.status = VALID_BLOCK

DiffStateAt(d, height) == DbOpt(d, concatDBKeys(DB_KEY_DIFF_STATE, height))

C3_DeleteThenReapply ==
    Reapplied =>
        /\ undo.block.header.height > getFinalizedHeight(undo.db)
        /\ job.err = "none"
        /\ lastBlock = undo.block
        /\ BlocksAndState(db) = BlocksAndState(undo.db)
        /\ DiffStateAt(db, undo.block.header.height)
             = DiffStateAt(undo.db, undo.block.header.height)
        /\ DiffStateAt(db, undo.block.header.height).present

\* the block deleted and applied again created, updated and deleted state keys
C3_Witness ==
    /\ Reapplied
    /\ job.op = "processValidated"
    /\ LET diff == decodeDiff(db[concatDBKeys(DB_KEY_DIFF_STATE, undo.block.header.height)])
       IN  Len(diff.created) > 0 /\ Len(diff.updated) > 0 /\ Len(diff.deleted) > 0
    /\ db # undo.db

-----------------------------------------------------------------------------
(* C4: after any sequence of saves and deletes, every block B currently on the
   chain at height H is what getBlockByHeight(H) and getBlockByID(B.id)
   return: B's header and B's payload in payload order. *)
C4_BlockLookups ==
    initialized =>
        \A h \in 0..lastBlock.header.height :
            LET B == AncestorAt(BlockOfId(lastBlock.header.id), h)
            IN  /\ getBlockByHeight(db, h) = Found(RawOf(B))
                /\ getBlockByID(db, B.header.id) = Found(RawOf(B))
                /\ hash(getBlockByHeight(db, h).value.header) = B.header.id

\* blocks with a payload of two transactions are stored at heights 1 and 2, after
\* a save, a delete and another save
C4_Witness ==
    /\ job.op = "processValidated" /\ job.err = "none"
    /\ Exists(job.pre.db, concatDBKeys(DB_KEY_TEMPBLOCKS_HEIGHT, 2))
    /\ lastBlock.header.height = 2
    /\ Len(lastBlock.payload) = 2
    /\ Len(AncestorAt(lastBlock, 1).payload) = 2

-----------------------------------------------------------------------------
(* C6 *)

TieBreakFailed(j) == j.op = "process" /\ j.status = TIE_BREAK /\ j.caught # "none"

\* C6 as stated: when the incoming TIE_BREAK block fails at any step of its
\* application, the job leaves the previous tip, its blocks and its state, and
\* no BROADCAST_BLOCK was emitted during the job.
C6_Original ==
    TieBreakFailed(job) =>
        /\ lastBlock = job.pre.lastBlock
        /\ BlocksAndState(db) = BlocksAndState(job.pre.db)
        /\ Events(job, EVENT_PROCESSOR_BROADCAST_BLOCK) = <<>>

\* C6, amended: when the incoming TIE_BREAK block fails at any step of its
\* application, the job ends without error and leaves the previous tip, its
\* blocks and its state; no BROADCAST_BLOCK is emitted for the restored tip, and
\* one for the incoming block is emitted exactly when that block passed header
\* verification, that is when it failed at a later step.
C6_TieBreakRestores ==
    TieBreakFailed(job) =>
        /\ job.err = "none"
        /\ lastBlock = job.pre.lastBlock
        /\ BlocksAndState(db) = BlocksAndState(job.pre.db)
        /\ db[concatDBKeys(DB_KEY_DIFF_STATE, lastBlock.header.height)]
             = job.pre.db[concatDBKeys(DB_KEY_DIFF_STATE, lastBlock.header.height)]
        /\ \A i \in 1..Len(job.log) :
             job.log[i].name = EVENT_PROCESSOR_BROADCAST_BLOCK
                => job.log[i].block = job.block.header.id
        /\ Len(Events(job, EVENT_PROCESSOR_BROADCAST_BLOCK))
             = IF job.caught = "verifyBlockHeader" THEN 0 ELSE 1

\* the incoming block failed in its payload, after the broadcast and after the BFT
\* accounting advanced, and the previous tip, holding transactions, is back
C6_Witness ==
    /\ TieBreakFailed(job)
    /\ job.caught = "transaction"
    /\ Len(lastBlock.payload) = 2
    /\ Saved(job) = {job.pre.lastBlock.header.id}
    /\ Removed(job) = {job.pre.lastBlock.header.id}

-----------------------------------------------------------------------------
(* C7: a TIE_BREAK block B that validates and applies replaces the tip A: A is
   deleted before B is saved, the tip is B at the height A had, and A is no
   longer stored under its id or its height. *)
TieBreakApplies(j) ==
    /\ j.op = "process" /\ j.status = TIE_BREAK
    /\ _validate(j.block) = "none"
    /\ VariantOf(j.block).fails = "none"
    /\ j.block.header.previousBlockID = j.pre.lastBlock.header.previousBlockID
    /\ j.pre.lastBlock.header.height > j.pre.finalizedHeight

C7_TieBreakReplaces ==
    TieBreakApplies(job) =>
        LET A == job.pre.lastBlock
            B == job.block
            steps == SelectSeq(job.log,
                        LAMBDA e : e.name \in {"chain:removeBlock", "chain:saveBlock"})
        IN  /\ job.err = "none"
            /\ steps = << [name |-> "chain:removeBlock", block |-> A.header.id, peerId |-> NoPeer],
                          [name |-> "chain:saveBlock", block |-> B.header.id, peerId |-> NoPeer] >>
            /\ lastBlock = B
            /\ lastBlock.header.height = A.header.height
            /\ ~isBlockPersisted(db, A.header.id)
            /\ db[concatDBKeys(DB_KEY_BLOCKS_HEIGHT, A.header.height)] = B.header.id
            /\ getBlockByHeight(db, A.header.height) = Found(RawOf(B))

C7_Witness ==
    /\ TieBreakApplies(job)
    /\ lastBlock = job.block
    /\ job.pre.lastBlock.header.height = 2

-----------------------------------------------------------------------------
(* C8: a VALID_BLOCK block that passes validation and application is saved and
   becomes the tip, and exactly one BROADCAST_BLOCK carrying it is emitted. *)
ValidBlockApplies(j) ==
    /\ j.op = "process" /\ j.status = VALID_BLOCK
    /\ _validate(j.block) = "none"
    /\ VariantOf(j.block).fails = "none"

C8_ValidBlockApplied ==
    ValidBlockApplies(job) =>
        /\ job.block.header.height = job.pre.lastBlock.header.height + 1
        /\ job.block.header.previousBlockID = job.pre.lastBlock.header.id
        /\ job.err = "none"
        /\ lastBlock = job.block
        /\ getBlockByID(db, job.block.header.id) = Found(RawOf(job.block))
        /\ getBlockByHeight(db, job.block.header.height) = Found(RawOf(job.block))
        /\ Events(job, EVENT_PROCESSOR_BROADCAST_BLOCK)
             = << [name |-> EVENT_PROCESSOR_BROADCAST_BLOCK,
                   block |-> job.block.header.id, peerId |-> NoPeer] >>

C8_Witness ==
    /\ ValidBlockApplies(job)
    /\ lastBlock = job.block
    /\ lastBlock.header.height = 2
    /\ Len(job.log) = 2

-----------------------------------------------------------------------------
(* C9: process with an IDENTICAL_BLOCK block changes nothing: tip, store and
   BFT state are as before, nothing is published and nothing is emitted. *)
C9_IdenticalBlockNoOp ==
    (job.op = "process" /\ job.status = IDENTICAL_BLOCK) =>
        /\ job.err = "none"
        /\ Unchanged(job)
        /\ finalizedHeight = job.pre.finalizedHeight
        /\ job.log = <<>>

C9_Witness ==
    /\ job.op = "process" /\ job.status = IDENTICAL_BLOCK
    /\ job.block = lastBlock
    /\ lastBlock.header.height > 0

-----------------------------------------------------------------------------
(* C10: process with a DIFFERENT_CHAIN block emits SYNC_REQUIRED with the block
   and the peerId, then publishes app:chain:fork, emits no BROADCAST_BLOCK and
   leaves tip and store unchanged. *)
C10_DifferentChainSyncs ==
    (job.op = "process" /\ job.status = DIFFERENT_CHAIN) =>
        /\ job.err = "none"
        /\ Unchanged(job)
        /\ job.log = << [name |-> EVENT_PROCESSOR_SYNC_REQUIRED,
                         block |-> job.block.header.id, peerId |-> job.peerId],
                        [name |-> "app:chain:fork",
                         block |-> job.block.header.id, peerId |-> NoPeer] >>

C10_Witness ==
    /\ job.op = "process" /\ job.status = DIFFERENT_CHAIN
    /\ job.peerId \in PeerIds
    /\ Len(job.log) = 2

-----------------------------------------------------------------------------
(* C11: process with a DISCARD or DOUBLE_FORGING block publishes app:chain:fork
   exactly once and returns: tip, store and BFT state are unchanged, and nothing
   else is published or emitted: no BROADCAST_BLOCK, no SYNC_REQUIRED, no
   penalty request. *)
C11_DiscardedBlockForkOnly ==
    (job.op = "process" /\ job.status \in {DISCARD, DOUBLE_FORGING}) =>
        /\ job.err = "none"
        /\ Unchanged(job)
        /\ finalizedHeight = job.pre.finalizedHeight
        /\ job.log = << [name |-> "app:chain:fork",
                         block |-> job.block.header.id, peerId |-> NoPeer] >>

\* a block of the tip's forger at the tip's height, received from a peer
C11_Witness ==
    /\ job.op = "process" /\ job.status = DOUBLE_FORGING
    /\ job.peerId \in PeerIds
    /\ job.block.header.generator = lastBlock.header.generator
    /\ job.block.header.height = lastBlock.header.height
    /\ job.block # lastBlock
    /\ Len(job.log) = 1

-----------------------------------------------------------------------------
(* C12: when forkChoice answers a status that is none of the six, process fails
   with an error before publishing or emitting anything, and tip, store and BFT
   state are unchanged. *)
C12_UnknownForkStatusFails ==
    (job.op = "process" /\ job.status \notin forkStatusList) =>
        /\ job.err = "Unknown fork status"
        /\ job.log = <<>>
        /\ Unchanged(job)
        /\ finalizedHeight = job.pre.finalizedHeight

\* the block would have been applied had the status been VALID_BLOCK
C12_Witness ==
    /\ job.op = "process" /\ job.status = UNKNOWN_STATUS
    /\ forkChoice(job.block.header, job.pre.lastBlock.header) = VALID_BLOCK
    /\ ValidBlockApplies([job EXCEPT !.status = VALID_BLOCK])
    /\ job.err # "none"



-----------------------------------------------------------------------------
(* C13: init, process, processValidated and deleteLastBlock all run inside the
   job queue: at any moment at most one of them is reading the tip or saving or
   deleting a block, and the tip a job read for its fork choice is still the
   tip while that job is in flight. *)
\* the entry points at work on the chain: the job in flight, and a call of init
\* past line 134
EntryPointsAtWork ==
    (IF pq.running.pc = "decided" THEN 1 ELSE 0) + (IF pq.init.pc = "checked" THEN 1 ELSE 0)

C13_AllEntryPointsSerialized ==
    /\ EntryPointsAtWork <= 1
    /\ pq.running.pc = "decided" => lastBlock = pq.running.tip

-----------------------------------------------------------------------------
(* C14: once stop() has set the shutdown flag, every call of process,
   processValidated or deleteLastBlock returns without adding a job to the
   queue, without changing the tip, the finalized height or the store, and
   without an event published or emitted. *)
C14_CallsAfterStopAreNoOps ==
    [][(pq.stop /\ pq'.calls = pq.calls + 1) =>
          /\ pq'.last = "noop"
          /\ pq'.queue = pq.queue /\ pq'.running = pq.running
          /\ UNCHANGED <<db, lastBlock, finalizedHeight, job>>]_vars

\* a call made after stop() returned at once, while a job added before stop()
\* was still waiting for stop() to settle
C14_Witness ==
    /\ pq.stop /\ pq.last = "noop" /\ pq.calls >= 2
    /\ pq.stopping = "waiting" /\ pq.running.pc = "decided"

-----------------------------------------------------------------------------
(* C15: stop() resolves only after the job in flight when it was called has
   run to its end; when stop() resolves no job is running and every block in
   the store is whole. *)
\* the stored blocks are those of the chain from the genesis block to the tip,
\* each with its header, its height index and its transactions, and nothing of
\* any other block is stored; before the first init the store is empty
StoredBlocksWhole ==
    LET heights == {k[2] : k \in {x \in DOMAIN db : x[1] = DB_KEY_BLOCKS_HEIGHT}}
        chain == {AncestorAt(BlockOfId(lastBlock.header.id), h) :
                     h \in 0..lastBlock.header.height}
    IN  IF ~initialized THEN db = EmptyDB ELSE
        /\ heights = 0..lastBlock.header.height
        /\ \A B \in chain :
              getBlockByHeight(db, B.header.height) = Found(RawOf(B))
        /\ \A k \in DOMAIN db :
              /\ k[1] \in {DB_KEY_BLOCKS_ID, DB_KEY_TRANSACTIONS_BLOCK_ID}
                    => \E B \in chain : B.header.id = k[2]
              /\ k[1] = DB_KEY_TRANSACTIONS_ID
                    => \E B \in chain : \E i \in 1..Len(B.payload) : B.payload[i].id = k[2]

C15_StopAwaitsJobInFlight ==
    pq.stopping = "resolved" =>
        /\ pq.inflight # "running"
        /\ pq.running.pc = "idle"
        /\ StoredBlocksWhole

\* stop() was called with a job in flight and resolved after that job; the
\* chain has a block above the genesis block
C15_Witness ==
    /\ pq.stopping = "resolved" /\ pq.inflight = "completed"
    /\ lastBlock.header.height >= 1

-----------------------------------------------------------------------------
(* C16: the first init(genesis) on an empty chain validates, applies and saves
   the genesis block at height 0 with finalized height 0; a later init with the
   same genesis validates nothing, runs no afterGenesisBlockApply hook, saves
   nothing, ends without error and leaves the store as it was. *)
GenesisStored(d) == isBlockPersisted(d, GenesisBlock.header.id)

GenesisApplied ==
    [i \in 1..3 |->
        [name |-> <<"chain:validateGenesisBlockHeader", "hooks:afterGenesisBlockApply",
                    "chain:saveBlock">>[i],
         block |-> GenesisBlock.header.id, peerId |-> NoPeer]]

C16_GenesisIdempotent ==
    (job.op = "init" /\ job.block = GenesisBlock) =>
        /\ job.err = "none"
        /\ IF GenesisStored(job.pre.db)
           THEN /\ job.log = <<>>
                /\ db = job.pre.db
                /\ lastBlock = job.pre.lastBlock
           ELSE /\ job.pre.db = EmptyDB
                /\ job.log = GenesisApplied
                /\ getBlockByHeight(db, 0) = Found(RawOf(GenesisBlock))
                /\ getFinalizedHeight(db) = 0
                /\ lastBlock = GenesisBlock
                /\ finalizedHeight = 0

\* init with the same genesis on a chain that has grown to height 2
C16_Witness ==
    /\ job.op = "init" /\ job.block = GenesisBlock
    /\ GenesisStored(job.pre.db)
    /\ job.pre.lastBlock.header.height = 2
    /\ getFinalizedHeight(job.pre.db) > 0

-----------------------------------------------------------------------------
(* C17: the persisted FINALIZED_HEIGHT never decreases, whatever sequence of
   init, process, processValidated and deleteLastBlock jobs runs, the
   delete-and-restore path of TIE_BREAK included. *)
C17_PersistedFinalizedHeightMonotonic ==
    [][Exists(db, FinalizedHeightKey) =>
          /\ Exists(db', FinalizedHeightKey)
          /\ getFinalizedHeight(db') >= getFinalizedHeight(db)]_vars

\* with a finalized height above 0 stored, a TIE_BREAK job deleted the tip,
\* failed on the incoming block after the BFT had counted its header, and
\* restored the tip
C17_Witness ==
    /\ TieBreakFailed(job) /\ job.caught = "transaction"
    /\ Removed(job) # {} /\ Saved(job) # {}
    /\ getFinalizedHeight(job.pre.db) > 0
    /\ getFinalizedHeight(db) = getFinalizedHeight(job.pre.db)

-----------------------------------------------------------------------------
(* C18: after any sequence of register calls the ids of the registered modules
   are pairwise distinct; a register call with an id already registered fails
   with an error and leaves the module list and the five hook pipelines as
   they were. *)
C18_ModuleIdsUnique ==
    /\ \A i, j \in 1..Len(reg.modules) :
          reg.modules[i].id = reg.modules[j].id => i = j
    /\ (\E i \in 1..Len(reg.pre.modules) : reg.pre.modules[i].id = reg.customModule.id)
          => /\ reg.err # "none"
             /\ reg.modules = reg.pre.modules
             /\ reg.hooks = reg.pre.hooks

\* with two modules registered, a module that defines all five hooks was
\* refused for its id
C18_Witness ==
    /\ reg.err # "none"
    /\ Len(reg.modules) = 2
    /\ reg.customModule.hooks = Range(HookNames)
    /\ reg.modules[2].id = reg.customModule.id
    /\ reg.modules[2].hooks # reg.customModule.hooks
    /\ Len(reg.hooks["afterBlockApply"]) = 1

-----------------------------------------------------------------------------
(* C19: after any sequence of registerChannel calls every namespaced event
   name (moduleAlias:event) and every namespaced action name
   (moduleAlias:action) is registered once in the bus; a registerChannel call
   that names an event or an action already registered under its moduleAlias
   throws. *)
C19_BusNamesUnique ==
    /\ bus.reassigned = {}
    /\ \A key \in DOMAIN bus.actions :
          Namespaced(bus.actions[key].module, bus.actions[key].name) = key
    /\ bus.named => bus.err # "none"

\* a module whose channel is registered, with events and actions of two
\* modules on the bus, named one of them again and the call threw
C19_Witness ==
    /\ bus.named /\ bus.err # "none"
    /\ bus.moduleAlias \in DOMAIN bus.channels
    /\ Cardinality(DOMAIN bus.channels) = 2
    /\ Cardinality(DOMAIN bus.events) >= 2
    /\ DOMAIN bus.actions # {}

-----------------------------------------------------------------------------
(* C20: for handleRPCGetTransactions and for
   handleEventPostTransactionsAnnouncement, a call that is the fourth or a
   later one of the same handler by the same peer within 10 seconds applies
   penalty 10 to that peer; calls of other peers and of the other handler do
   not count; three or fewer calls within a window apply no penalty 10. *)
\* the calls up to call i of its peer and handler that are at most `age` older
CallsWithin(i, age) ==
    {j \in 1..i : /\ net.calls[j].peerId = net.calls[i].peerId
                  /\ net.calls[j].handler = net.calls[i].handler
                  /\ net.calls[i].time - net.calls[j].time <= age}

Penalized(i) ==
    [peerId |-> net.calls[i].peerId, penalty |-> RATE_LIMIT_PENALTY] \in net.calls[i].penalties

C20_PerPeerRateLimit ==
    \A i \in 1..Len(net.calls) :
        /\ Cardinality(CallsWithin(i, DEFAULT_RATE_RESET_TIME - 1)) > DEFAULT_RATE_LIMIT_FREQUENCY
              => Penalized(i)
        /\ Cardinality(CallsWithin(i, DEFAULT_RATE_RESET_TIME)) <= DEFAULT_RATE_LIMIT_FREQUENCY
              => ~Penalized(i)
        /\ \A p \in net.calls[i].penalties :
              p.penalty = RATE_LIMIT_PENALTY => p.peerId = net.calls[i].peerId

\* the fourth call of one handler by one peer within 10 seconds, penalized;
\* the clock moved between the calls, and none of the first three was penalized
C20_Witness ==
    /\ Len(net.calls) = 4
    /\ Penalized(4) /\ ~Penalized(3) /\ ~Penalized(2) /\ ~Penalized(1)
    /\ net.calls[1].time < net.calls[4].time
    /\ net.calls[4].time - net.calls[1].time < DEFAULT_RATE_RESET_TIME


-----------------------------------------------------------------------------
(* C22 - C24: the broadcaster *)

RECURSIVE Flatten(_)
\* the ids of a sequence of announcements, in the order they were published
Flatten(batches) ==
    IF batches = <<>> THEN <<>> ELSE Head(batches) \o Flatten(Tail(batches))

\* how often an id occurs in a sequence
Occurrences(q, id) == Cardinality({i \in 1..Len(q) : q[i] = id})

\* C22: an interval tick releases at most releaseLimit ids, from the front of
\* the queue and in the order they were enqueued: the ids released so far
\* followed by the ids still queued are the ids the queue accepted, so none is
\* lost and the ids beyond the limit wait for a later tick; no announcement
\* holds more than releaseLimit ids; while every transaction is in the pool the
\* announcements are exactly the released ids in order; and no id is announced
\* more often than it was enqueued.
C22_ReleaseInBatches ==
    /\ bc.released \o bc.transactionIdQueue = bc.accepted
    /\ \A i \in 1..Len(bc.announcements) :
           Len(bc.announcements[i]) \in 1..defaultReleaseLimit
    /\ bc.evicted = {} => Flatten(bc.announcements) = bc.released
    /\ LET announced == Flatten(bc.announcements)
       IN  \A id \in 1..bc.made :
               Occurrences(announced, id) <= Occurrences(bc.accepted, id)

\* fifty transactions handed over once each and all in the pool: the first tick
\* announced the first twenty-five, the second the other twenty-five
C22_Witness ==
    /\ bc.made = 2 * defaultReleaseLimit
    /\ bc.evicted = {}
    /\ bc.accepted = [i \in 1..(2 * defaultReleaseLimit) |-> i]
    /\ bc.announcements =
           <<[i \in 1..defaultReleaseLimit |-> i],
             [i \in 1..defaultReleaseLimit |-> defaultReleaseLimit + i]>>
    /\ bc.transactionIdQueue = <<>>

\* C23: the queue never holds an id twice: handleBroadcastTransaction with an
\* id in the queue leaves the queue as it is, and with any other id appends
\* that one id at the end.
C23_QueueDedup ==
    [][/\ \A i, j \in 1..Len(bc'.transactionIdQueue) :
              bc'.transactionIdQueue[i] = bc'.transactionIdQueue[j] => i = j
       /\ \A id \in 1..MaxTransactions :
              HandleBroadcastTransaction(id) =>
                  bc'.transactionIdQueue =
                      IF id \in Range(bc.transactionIdQueue)
                      THEN bc.transactionIdQueue
                      ELSE Append(bc.transactionIdQueue, id)]_vars

\* a transaction handed over a second time while its id was queued: the queue
\* took it once
C23_Witness ==
    /\ bc.again
    /\ bc.id \in Range(bc.transactionIdQueue)
    /\ Occurrences(bc.accepted, bc.id) = 1
    /\ Len(bc.transactionIdQueue) > 1

\* C24: an announcement holds only ids whose transactions are in the pool when
\* the tick publishes it.
C24_AnnouncedInPool ==
    [][bc'.announcements # bc.announcements =>
           /\ Len(bc'.announcements) = Len(bc.announcements) + 1
           /\ \A id \in Range(bc'.announcements[Len(bc'.announcements)]) :
                  transactionInPool(bc, id)]_vars

\* a transaction that left the pool while its id was queued: the tick released
\* the id and announced the others without it
C24_Witness ==
    \E id \in bc.evicted :
        /\ id \in Range(bc.released)
        /\ id \notin Range(Flatten(bc.announcements))
        /\ bc.announcements # <<>>


-----------------------------------------------------------------------------
(* C21, C25, C26: the handlers of peer requests *)

\* the last request was malformed: getTransactions naming more than MAX_GET_TX
\* ids, or data that fails the schema
Malformed ==
    \/ rx.handler = "handleRPCGetTransactions" /\ Len(rx.data.ids) > MAX_GET_TX
    \/ /\ rx.handler \in {"handleRPCGetGetHighestCommonBlock",
                         "handleEventPostTransactionsAnnouncement"}
       /\ rx.data = SchemaFailing

\* C21: a malformed request applies penalty 100 to the peer that sent it and is
\* rejected: nothing is returned, nothing is requested from the peer and no
\* transaction is received.
C21_MalformedRequestPenalized ==
    Malformed =>
        /\ rx.penalties = <<[peerId |-> rx.peerId, penalty |-> 100]>>
        /\ rx.rejected # "none"
        /\ rx.returned = <<>>
        /\ rx.requested = <<>>
        /\ rx.received = <<>>

\* a getTransactions request of one id more than the limit, rejected
C21_Witness ==
    /\ rx.handler = "handleRPCGetTransactions"
    /\ Len(rx.data.ids) = MAX_GET_TX + 1
    /\ rx.rejected = "Received invalid request"

\* the last call handled an announcement that passed the schema
Announced ==
    /\ rx.handler = "handleEventPostTransactionsAnnouncement"
    /\ rx.data.schema = "valid"

\* C25: an announcement makes one request to the announcing peer, for the
\* announced ids that were neither in the pool nor in the database, in the
\* order announced, and no request when every id is known; the transactions
\* deserialized and validated are those of the answer, in order, and only
\* they get into the pool.
C25_RequestsUnknownOnly ==
    Announced =>
        LET unknown == SelectSeq(rx.data.ids,
                                 LAMBDA id : id \notin rx.poolBefore \cup StoredTxIds)
        IN  /\ rx.requested =
                   IF unknown = <<>> THEN <<>>
                   ELSE <<[procedure |-> "getTransactions", transactionIds |-> unknown,
                           peerId |-> rx.peerId]>>
            /\ rx.received = [i \in DOMAIN rx.response |-> rx.response[i][2]]
            /\ rx.validated = rx.received
            /\ Range(rx.inserted) \subseteq Range(rx.received)
            /\ rx.pool \subseteq rx.poolBefore \cup Range(rx.inserted)
            /\ unknown = <<>> => rx.received = <<>>

\* an announcement of a transaction of the pool and a new one: the new one was
\* requested, received and put into the pool
C25_Witness ==
    /\ Announced
    /\ rx.data.ids = <<1, 3>>
    /\ rx.requested = <<[procedure |-> "getTransactions", transactionIds |-> <<3>>,
                         peerId |-> rx.peerId]>>
    /\ rx.inserted = <<3>>

\* C26: handling an announcement applies penalty 100 to the announcing peer
\* once for each received transaction that fails validation and for nothing
\* else, so a transaction the pool turns down is not penalized; and the handler
\* does not reject.
C26_PenaltyForInvalidOnly ==
    Announced =>
        /\ rx.rejected = "none"
        /\ rx.penalties =
               [i \in 1..Len(SelectSeq(rx.response,
                                       LAMBDA raw : ~deserializeTransaction(raw).valid)) |->
                   [peerId |-> rx.peerId, penalty |-> 100]]

\* an answer of a transaction the pool turned down and one that failed
\* validation: one penalty, and the handler resolved
C26_Witness ==
    /\ Announced
    /\ rx.received = <<5, 4>>
    /\ rx.inserted = <<>>
    /\ rx.penalties = <<[peerId |-> rx.peerId, penalty |-> 100]>>
    /\ rx.rejected = "none"


-----------------------------------------------------------------------------
(* C27: the errors of Bus.invoke *)

\* the request object the last invoke call was given, as an object or as its
\* JSON text
InvokedRequest == inv.rawRequest.value

\* the last invoke call was given nothing, text that is not JSON, or a value
\* that is not a JSON-RPC request
InvalidInvoke ==
    \/ Falsy(inv.rawRequest)
    \/ inv.rawRequest.form = "string" /\ inv.rawRequest.text # "json"
    \/ ~validateJSONRPCRequest(InvokedRequest)

\* the last invoke call was given a request for an action the bus does not
\* have; the bus never forgets an action, so it did not have it at the call
UnregisteredInvoke ==
    /\ ~InvalidInvoke
    /\ InvokedRequest.method \notin DOMAIN bus.actions

\* C27: a failing invoke carries the JSON-RPC code of its cause: -32600 for an
\* empty, unparsable or schema-invalid request, -32601 for an action that is
\* not registered, -32603 when the handler of an in-memory channel throws an
\* error that is not a JSON-RPC error; no channel is invoked in the first two
\* cases.
C27_InvokeErrorCodes ==
    /\ InvalidInvoke /\ inv # InvokeIdle =>
           inv.error = "JSONRPCError" /\ inv.code = -32600 /\ inv.invoked = <<>>
    /\ UnregisteredInvoke =>
           inv.error = "JSONRPCError" /\ inv.code = -32601 /\ inv.invoked = <<>>
    /\ inv.invoked # <<>> /\ inv.behaviour = "throwsError" =>
           inv.error = "JSONRPCError" /\ inv.code = -32603


-----------------------------------------------------------------------------
(* C28 - C30: failures of block application *)

\* the first transaction of a payload that throws when applied, 0 when none does
FailingTransaction(payload) ==
    IF \E i \in DOMAIN payload : payload[i].type = "bad"
    THEN payload[CHOOSE i \in DOMAIN payload :
                     /\ payload[i].type = "bad"
                     /\ \A j \in 1..(i - 1) : payload[j].type # "bad"].id
    ELSE 0

\* the last job applied transactions and one of them threw: the job failed
\* with what was thrown, or caught it to restore the previous tip
TransactionThrew ==
    /\ job.op \in {"process", "processValidated", "verifyTransactions"}
    /\ {job.err, job.caught} \cap {"transaction", TransactionApplyError} # {}

\* C28: when a payload transaction throws while a block is applied, the error
\* surfaced is a TransactionApplyError with the id of that transaction and the
\* cause, and the block is not saved.
C28_TransactionApplyErrorSurfaced ==
    TransactionThrew =>
        /\ TransactionApplyError \in {job.err, job.caught}
        /\ job.txId = FailingTransaction(job.block.payload)
        /\ job.cause = "transaction"
        /\ isBlockPersisted(db, job.block.header.id) =>
               isBlockPersisted(job.pre.db, job.block.header.id)


\* the last job applied a block on top of the tip, and nothing else: a
\* processValidated job, or a process job answered VALID_BLOCK
AppliedOnTip ==
    \/ job.op = "processValidated"
    \/ job.op = "process" /\ job.status = VALID_BLOCK

StaticallyInvalid(block) ==
    \/ block.header.version # 2
    \/ VariantTable[block.header.signature].fails = "validate"

-----------------------------------------------------------------------------
(* C31, C32: invokes routed to child processes *)

C32_ChildInvokeSettles ==
    \A id \in 1..MaxInvokes :
        (id \in rpc._rpcRequestIds /\ id \in rpc.arrived \cup rpc.failed)
            ~> (id \notin rpc._rpcRequestIds)


-----------------------------------------------------------------------------
(* C33: the order of the steps of block application *)

\* the place of a step in the fixed order of block application
StepRank(name) ==
    CASE name = "chain.verifyBlockHeader" -> 1
      [] name = "bft.verifyBlockHeader" -> 2
      [] name = "EVENT_PROCESSOR_BROADCAST_BLOCK" -> 3
      [] name = "beforeBlockApply" -> 4
      [] name = "bft.applyBlockHeader" -> 5
      [] name = "beforeTransactionApply" -> 6
      [] name = "codec.decode" -> 7
      [] name = "asset.apply" -> 8
      [] name = "afterTransactionApply" -> 9
      [] name = "afterBlockApply" -> 10
      [] name = "chain.saveBlock" -> 11

\* when a module was registered: its place in Processor._modules
RegisteredAt(r, module) ==
    IF module = 0 THEN 0 ELSE CHOOSE i \in 1..Len(r.modules) : r.modules[i].id = module

\* a step comes before another: by the step of the block; within the payload by
\* the transaction, then by the step of the transaction; and among the hooks of
\* one point by the registration of their modules
ComesBefore(r, a, b) ==
    LET outer(x) == IF x.tx # 0 THEN 6 ELSE StepRank(x.name)
    IN  \/ outer(a) < outer(b)
        \/ outer(a) = outer(b) /\ a.tx < b.tx
        \/ outer(a) = outer(b) /\ a.tx = b.tx /\ StepRank(a.name) < StepRank(b.name)
        \/ /\ a.name = b.name /\ a.tx = b.tx
           /\ RegisteredAt(r, a.module) < RegisteredAt(r, b.module)

-----------------------------------------------------------------------------
(* C34: after a saveBlock with finalized height F has returned, no DIFF_STATE
   entry exists for a height below F, and the entries for heights at or above
   F other than the one of the block just written are as before the call.  The
   clearing is not part of the batch: once the batch is written the store is
   exactly what the batch makes of it, leftover entries included, and stays so
   when the clearing fails; the block is then saved, and the next saveBlock
   that returns removes the leftover entries. *)
DiffStateHeights(d) == {k[2] : k \in {x \in DOMAIN d : x[1] = DB_KEY_DIFF_STATE}}

C34_DiffStateCleared ==
    st.op = "saveBlock" =>
        /\ st.pc = "saved" =>
            /\ \A h \in DiffStateHeights(db) : h >= st.finalized
            /\ \A h \in DiffStateHeights(st.pre) \cup DiffStateHeights(db) :
                 (h >= st.finalized /\ h # st.block.header.height) =>
                    DiffStateAt(db, h) = DiffStateAt(st.pre, h)
            /\ getBlockByID(db, st.block.header.id).err = "none"
        /\ (st.pc = "saving" /\ st.pending = <<>>) => db = st.post
        /\ (st.pc = "failed" /\ st.written > 0) =>
            /\ db = st.post
            /\ DiffStateHeights(db) = DiffStateHeights(st.pre) \cup {st.block.header.height}
            /\ getBlockByID(db, st.block.header.id).err = "none"
            /\ getFinalizedHeight(db) = st.finalized

\* a saveBlock has returned that found an entry below the finalized height
\* already persisted, left behind by a clearing that failed, and removed it,
\* leaving the entry at the finalized height alone
C34_Witness ==
    /\ st.op = "saveBlock" /\ st.pc = "saved"
    /\ Exists(st.pre, FinalizedHeightKey)
    /\ \E h \in DiffStateHeights(st.pre) :
         h < getFinalizedHeight(st.pre) /\ h \notin DiffStateHeights(db)
    /\ \E h \in DiffStateHeights(db) : h = st.finalized /\ h # st.block.header.height


-----------------------------------------------------------------------------
(* C35: Storage.deleteBlock of a block whose height is less than or equal to
   the persisted finalized height fails and commits nothing, whatever its
   caller has checked. *)
AtOrBelowFinalized ==
    /\ st.op = "deleteBlock"
    /\ Exists(st.pre, FinalizedHeightKey)
    /\ st.block.header.height <= getFinalizedHeight(st.pre)

C35_DeleteBelowFinalizedFails ==
    AtOrBelowFinalized => (st.err # "none" /\ db = st.pre)


-----------------------------------------------------------------------------
(* C36: the table of temporary blocks.  A deleteBlock with saveToTemp that
   succeeds leaves the encoded block under TEMPBLOCKS[height], in the batch
   that removes the block; a saveBlock with removeFromTemp removes
   TEMPBLOCKS[height] in the batch that writes the block, so that at no point
   of the call both or neither are there; deleteBlock without saveToTemp,
   saveBlock without removeFromTemp and any call that fails before its write
   leave every TEMPBLOCKS entry as it was; after clearTempBlocks isTempBlockEmpty is true
   and nothing else has changed. *)
TempBlocks(d) == Restrict(d, {k \in DOMAIN d : k[1] = DB_KEY_TEMPBLOCKS_HEIGHT})

TempKey == concatDBKeys(DB_KEY_TEMPBLOCKS_HEIGHT, st.block.header.height)

C36_TempBlocksFrame ==
    /\ st.op = "deleteBlock" =>
         IF st.temp /\ st.err = "none"
         THEN /\ db[TempKey] = encodeBlock(st.block)
              /\ ~isBlockPersisted(db, st.block.header.id)
              /\ TempBlocks(db) = TempBlocks(Put(st.pre, TempKey, encodeBlock(st.block)))
         ELSE TempBlocks(db) = TempBlocks(st.pre)
    /\ st.op = "saveBlock" =>
         IF st.temp /\ (st.err = "none" \/ st.written > 0)
         THEN /\ Exists(db, TempKey) = ~isBlockPersisted(db, st.block.header.id)
              /\ TempBlocks(db) \in {TempBlocks(st.pre), TempBlocks(Del(st.pre, TempKey))}
              /\ st.written > 0 => ~Exists(db, TempKey)
         ELSE TempBlocks(db) = TempBlocks(st.pre)
    /\ st.op = "clearTempBlocks" =>
         /\ isTempBlockEmpty(db)
         /\ \A k \in DOMAIN st.pre :
              k[1] # DB_KEY_TEMPBLOCKS_HEIGHT => (k \in DOMAIN db /\ db[k] = st.pre[k])

\* two blocks were deleted into the table, and another block was saved at the
\* height of the lower one without removeFromTemp: both temporary blocks are
\* still there
C36_Witness ==
    /\ st.op = "saveBlock" /\ st.pc = "saved" /\ ~st.temp
    /\ Exists(db, TempKey)
    /\ db[TempKey] # encodeBlock(st.block)
    /\ \E h \in 1..MaxHeight :
         h # st.block.header.height /\ Exists(db, concatDBKeys(DB_KEY_TEMPBLOCKS_HEIGHT, h))

\* a saveBlock with removeFromTemp took the place of its temporary block
C36_WitnessRemoved ==
    /\ st.op = "saveBlock" /\ st.pc = "saved" /\ st.temp
    /\ Exists(st.pre, TempKey) /\ ~Exists(db, TempKey)

\* clearTempBlocks emptied a table of two temporary blocks
C36_WitnessCleared ==
    /\ st.op = "clearTempBlocks"
    /\ \E h, g \in DOMAIN TempBlocks(st.pre) : h # g


-----------------------------------------------------------------------------
(* C38: a Storage.deleteBlock for a height whose DIFF_STATE entry is absent
   fails with a not-found error and commits nothing: header, height index,
   transaction entries, the table of temporary blocks and the state keys are
   as before the call. *)
DiffAbsent ==
    /\ st.op = "deleteBlock"
    /\ ~Exists(st.pre, concatDBKeys(DB_KEY_DIFF_STATE, st.block.header.height))

C38_DeleteWithoutDiffFails ==
    DiffAbsent =>
        /\ st.err = NotFoundError
        /\ db = st.pre
        /\ getBlockByID(db, st.block.header.id)
             = Found([header |-> encodeBlockHeader(st.block.header),
                      payload |-> [i \in 1..Len(st.block.payload) |->
                                     encodeTransaction(st.block.payload[i])]])
        /\ getBlockHeaderByHeight(db, st.block.header.height)
             = Found(encodeBlockHeader(st.block.header))
        /\ TempBlocks(db) = TempBlocks(st.pre)
        /\ StateOf(db) = StateOf(st.pre)

\* the entry was cleared as lying below the finalized height; the call was to
\* keep the block as a temporary block, and the store holds state keys
C38_Witness ==
    /\ DiffAbsent /\ st.temp
    /\ st.block.header.height < getFinalizedHeight(st.pre)
    /\ StateOf(st.pre) # <<>>


-----------------------------------------------------------------------------
(* C37: a processValidated job never fails static validation and never emits
   BROADCAST_BLOCK, whatever block it is given; BROADCAST_BLOCK is emitted
   only by a process job whose fork status is VALID_BLOCK or TIE_BREAK, at
   most once, and for the incoming block: never for the previous tip applied
   again after the incoming block of a TIE_BREAK has failed. *)
Broadcasts(j) == Events(j, EVENT_PROCESSOR_BROADCAST_BLOCK)

C37_BroadcastOnlyFromProcess ==
    /\ job.op = "processValidated" =>
         /\ Broadcasts(job) = <<>>
         /\ job.err # ApplyPenaltyError
         /\ (/\ VariantOf(job.block).fails \in {"none", "validate"}
             /\ job.block.header.previousBlockID = job.pre.lastBlock.header.id
             /\ job.block.header.height = job.pre.lastBlock.header.height + 1)
            => (job.err = "none" /\ lastBlock = job.block)
    /\ Broadcasts(job) # <<>> =>
         /\ job.op = "process"
         /\ job.status \in {VALID_BLOCK, TIE_BREAK}
         /\ Len(Broadcasts(job)) = 1
         /\ Broadcasts(job)[1].block = job.block.header.id
         /\ job.block.header.id # job.pre.lastBlock.header.id

\* processValidated was given a block that fails static validation, and
\* applied and saved it without a broadcast
C37_Witness ==
    /\ job.op = "processValidated"
    /\ StaticallyInvalid(job.block)
    /\ job.err = "none"
    /\ lastBlock = job.block
    /\ isBlockPersisted(db, job.block.header.id)

\* the incoming block of a TIE_BREAK was broadcast and then failed; the
\* previous tip was applied again, without a broadcast
C37_WitnessTieBreak ==
    /\ TieBreakFailed(job)
    /\ Len(Broadcasts(job)) = 1
    /\ lastBlock = job.pre.lastBlock
    /\ lastBlock # job.block


-----------------------------------------------------------------------------
(* C39: once the node is initialized, whatever jobs have run, the height index
   maps exactly the heights 0..tip.height, each to the id of a stored header
   of that height; every stored header is the one its height is mapped to;
   every id listed in the transaction-id entry of a stored block has a stored
   transaction; and every stored transaction is listed in the transaction-id
   entry of a stored block. *)
KeysOf(d, prefix) == {k[2] : k \in {x \in DOMAIN d : x[1] = prefix}}

ListedTransactions(d, blockID) ==
    Range(d[concatDBKeys(DB_KEY_TRANSACTIONS_BLOCK_ID, blockID)])

C39_IndexesConsistent ==
    initialized =>
        /\ KeysOf(db, DB_KEY_BLOCKS_HEIGHT) = 0..lastBlock.header.height
        /\ \A h \in KeysOf(db, DB_KEY_BLOCKS_HEIGHT) :
             LET id == db[concatDBKeys(DB_KEY_BLOCKS_HEIGHT, h)]
             IN  /\ isBlockPersisted(db, id)
                 /\ decodeBlockHeader(db[concatDBKeys(DB_KEY_BLOCKS_ID, id)]).height = h
                 /\ hash(db[concatDBKeys(DB_KEY_BLOCKS_ID, id)]) = id
        /\ db[concatDBKeys(DB_KEY_BLOCKS_HEIGHT, lastBlock.header.height)]
             = lastBlock.header.id
        /\ \A id \in KeysOf(db, DB_KEY_BLOCKS_ID) :
             \E h \in KeysOf(db, DB_KEY_BLOCKS_HEIGHT) :
                db[concatDBKeys(DB_KEY_BLOCKS_HEIGHT, h)] = id
        /\ \A id \in KeysOf(db, DB_KEY_TRANSACTIONS_BLOCK_ID) :
             /\ isBlockPersisted(db, id)
             /\ ListedTransactions(db, id) \subseteq KeysOf(db, DB_KEY_TRANSACTIONS_ID)
        /\ \A txID \in KeysOf(db, DB_KEY_TRANSACTIONS_ID) :
             \E id \in KeysOf(db, DB_KEY_TRANSACTIONS_BLOCK_ID) :
                txID \in ListedTransactions(db, id)

\* a TIE_BREAK has replaced a tip that had transactions by a block that has
\* transactions, above the genesis block
C39_Witness ==
    /\ job.op = "process" /\ job.status = TIE_BREAK /\ job.err = "none"
    /\ job.caught = "none"
    /\ lastBlock = job.block
    /\ Len(job.pre.lastBlock.payload) > 0
    /\ Len(lastBlock.payload) > 0
    /\ KeysOf(db, DB_KEY_TRANSACTIONS_ID) # KeysOf(job.pre.db, DB_KEY_TRANSACTIONS_ID)


-----------------------------------------------------------------------------
(* C40: a registerChannel call that throws because an event or an action name
   is already registered leaves registered the names of the call that came
   before the duplicate, events first, then actions, and nothing after it;
   what was registered before the call is as it was, and no channel entry is
   created or replaced. *)
\* the names of the list are all new, one after the other
AllNew(object, moduleAlias, list) ==
    \A i \in DOMAIN list :
        Namespaced(moduleAlias, list[i])
            \notin (DOMAIN object) \cup {Namespaced(moduleAlias, list[j]) : j \in 1..(i - 1)}

\* the keys of the names that come before the first one that is not new
KeysBeforeDuplicate(object, moduleAlias, list) ==
    {Namespaced(moduleAlias, list[i]) :
        i \in {n \in DOMAIN list : AllNew(object, moduleAlias, SubSeq(list, 1, n))}}

=============================================================================
